---- MODULE Spec2Model ----
(***************************************************************************)
(* A model of the dependency store of github-deps: fetchDependencies of    *)
(* src/store/slices/dependencySlice.ts together with the helpers of        *)
(* src/store/utils/dependencyUtils.ts it calls, run against a forge whose  *)
(* contents are fixed per behaviour.                                       *)
(*                                                                         *)
(* fetchDependencies is an async function: it is modelled as a coroutine   *)
(* whose program counter pc names the forge call it is awaiting, with one  *)
(* action per resumption (the code from one await to the next).  The       *)
(* callbacks of deps.forEach(async dep => ...) are floating promises: each *)
(* one that reaches its own await is kept in `pending` and resumes in its  *)
(* own action, in any order, also after the run has published its graph.   *)
(***************************************************************************)
EXTENDS Integers, Sequences, FiniteSets, TLC

(* ------------------------------------------------------------------ *)
(* Bounds of the model                                                 *)
(* ------------------------------------------------------------------ *)

\* how many times fetchDependencies is invoked in one behaviour
MaxRuns == 2

\* how many numbers, joined by dots, a generated version string has at most
MaxParts == 3

\* how many tags a repository has at most when getLatestTag is called on its own
MaxTags == 3

\* entries of a repository tree handed to findComposerFiles on its own
MaxTree == 3

\* keys of require and of require-dev handed to extractDependencies on its own
MaxRequire == 2
MaxRequireDev == 1

\* per_page of getLatestTag (100 in the source), and the tags of a repository
\* whose tags are fetched page by page
PerPage == 2
MaxRepoTags == 4
MaxSelections == 3

(* ------------------------------------------------------------------ *)
(* Strings.  TLC concatenates strings but cannot take them apart, so   *)
(* toLowerCase and split('/') are tabulated over the names that occur. *)
(* The empty string stands for every falsy string value of the code    *)
(* (null, undefined, ''), which the code only ever tests with || or !. *)
(* ------------------------------------------------------------------ *)

Null == ""

\* the string a sequence of one-character strings spells
RECURSIVE Str(_)
Str(cs) == IF cs = <<>> THEN "" ELSE cs[1] \o Str(Tail(cs))

\* the characters of the names of the model, so that the string operations
\* below can take a name apart
Names ==
  {"", "A", "B", "a", "b", "c", "x", "b2",
   "Lib", "ORG", "Org", "lib", "org", "php", "Org/A", "Org/c",
   "org/B", "org/a", "org/b", "org/c", "other", "org/b2", "ORG/Lib", "org/lib",
   "organic", "other/x", "organic/x"}

Spell ==
  [s \in Names |->
     CASE s = "" -> <<>>
       [] s = "A" -> <<"A">>
       [] s = "B" -> <<"B">>
       [] s = "a" -> <<"a">>
       [] s = "b" -> <<"b">>
       [] s = "c" -> <<"c">>
       [] s = "x" -> <<"x">>
       [] s = "b2" -> <<"b", "2">>
       [] s = "Lib" -> <<"L", "i", "b">>
       [] s = "ORG" -> <<"O", "R", "G">>
       [] s = "Org" -> <<"O", "r", "g">>
       [] s = "lib" -> <<"l", "i", "b">>
       [] s = "org" -> <<"o", "r", "g">>
       [] s = "php" -> <<"p", "h", "p">>
       [] s = "Org/A" -> <<"O", "r", "g", "/", "A">>
       [] s = "Org/c" -> <<"O", "r", "g", "/", "c">>
       [] s = "org/B" -> <<"o", "r", "g", "/", "B">>
       [] s = "org/a" -> <<"o", "r", "g", "/", "a">>
       [] s = "org/b" -> <<"o", "r", "g", "/", "b">>
       [] s = "org/c" -> <<"o", "r", "g", "/", "c">>
       [] s = "other" -> <<"o", "t", "h", "e", "r">>
       [] s = "org/b2" -> <<"o", "r", "g", "/", "b", "2">>
       [] s = "ORG/Lib" -> <<"O", "R", "G", "/", "L", "i", "b">>
       [] s = "org/lib" -> <<"o", "r", "g", "/", "l", "i", "b">>
       [] s = "organic" -> <<"o", "r", "g", "a", "n", "i", "c">>
       [] s = "other/x" -> <<"o", "t", "h", "e", "r", "/", "x">>
       [] s = "organic/x" -> <<"o", "r", "g", "a", "n", "i", "c", "/", "x">>]

Chars(s) == Spell[s]

\* String.prototype.toLowerCase, character by character
UpperCase == <<"A", "B", "C", "D", "E", "F", "G", "H", "I", "J", "K", "L", "M",
               "N", "O", "P", "Q", "R", "S", "T", "U", "V", "W", "X", "Y", "Z">>
LowerCase == <<"a", "b", "c", "d", "e", "f", "g", "h", "i", "j", "k", "l", "m",
               "n", "o", "p", "q", "r", "s", "t", "u", "v", "w", "x", "y", "z">>
LowerChar(c) ==
  IF \E k \in 1..Len(UpperCase) : UpperCase[k] = c
  THEN LowerCase[CHOOSE k \in 1..Len(UpperCase) : UpperCase[k] = c]
  ELSE c
LowerChars(s) == [i \in 1..Len(s) |-> LowerChar(s[i])]

\* String.prototype.endsWith
EndsWith(s, suffix) ==
  /\ Len(s) >= Len(suffix)
  /\ SubSeq(s, Len(s) - Len(suffix) + 1, Len(s)) = suffix

\* String.prototype.indexOf, counted from 1 (0 when sub does not occur)
IndexOf(s, sub) ==
  LET at(i) == SubSeq(s, i, i + Len(sub) - 1) = sub
      hits  == {i \in 1..(Len(s) - Len(sub) + 1) : at(i)}
  IN IF hits = {} THEN 0 ELSE CHOOSE i \in hits : \A j \in hits : i <= j

\* String.prototype.replace(from, to) with a string pattern: the first occurrence
Replace(s, from, to) ==
  IF IndexOf(s, from) = 0 THEN s
  ELSE SubSeq(s, 1, IndexOf(s, from) - 1) \o to
       \o SubSeq(s, IndexOf(s, from) + Len(from), Len(s))

\* String.prototype.startsWith
StartsWith(s, prefix) ==
  /\ Len(s) >= Len(prefix)
  /\ SubSeq(s, 1, Len(prefix)) = prefix

\* String.prototype.split(sep) for a one-character separator
RECURSIVE SplitChars(_, _)
SplitChars(s, sep) ==
  IF IndexOf(s, <<sep>>) = 0 THEN <<s>>
  ELSE <<SubSeq(s, 1, IndexOf(s, <<sep>>) - 1)>>
       \o SplitChars(SubSeq(s, IndexOf(s, <<sep>>) + 1, Len(s)), sep)

\* String.prototype.toLowerCase
ToLower(s) == Str(LowerChars(Chars(s)))

\* String.prototype.split('/')
Split(s) ==
  LET parts == SplitChars(Chars(s), "/")
  IN [i \in 1..Len(parts) |-> Str(parts[i])]

\* name.split('/')[1], undefined (Null) when there is no second part
SecondPart(s) == IF Len(Split(s)) >= 2 THEN Split(s)[2] ELSE Null

\* depLower.startsWith(orgLower + '/')
StartsWithOrgLoose(depLower, orgLower) ==
  StartsWith(Chars(depLower), Chars(orgLower))
StartsWithOrg(depLower, orgLower) ==
  StartsWith(Chars(depLower), Chars(orgLower) \o <<"/">>)

\* a || b for strings
Or(a, b) == IF a # Null THEN a ELSE b

(* ------------------------------------------------------------------ *)
(* Messages and colours of the slice                                   *)
(* ------------------------------------------------------------------ *)

ErrSelect   == "Please select at least one repository"
ErrNoDepsUnset == Null
ErrNoDeps   == "No internal dependencies found between projects."
ErrFetch    == "Failed to fetch dependencies. Please check your token and organization."

ColorMonorepo   == "#9333ea"
ColorProject    == "#2563eb"
ColorDependency == "#059669"

DevMain == "dev-main"

EmptyGraph == [nodes |-> <<>>, links |-> <<>>]

NoProgress == [total |-> 0, current |-> 0, currentRepo |-> Null,
               isPhp |-> FALSE, dependencies |-> <<>>]

(* ------------------------------------------------------------------ *)
(* JSON documents.  A parsed composer.json or composer.lock is a       *)
(* record with every key the code reads; a key the document lacks has  *)
(* the empty value.  require / require-dev keep their key order, as    *)
(* Object.entries does.                                                *)
(* ------------------------------------------------------------------ *)

Json(name, version, require, requireDev, repositories, packages, packagesDev) ==
  [name |-> name, version |-> version, require |-> require,
   requireDev |-> requireDev, repositories |-> repositories,
   packages |-> packages, packagesDev |-> packagesDev]

\* a composer.json document
ComposerJson(name, version, require, requireDev, repositories) ==
  Json(name, version, require, requireDev, repositories, <<>>, <<>>)

\* a composer.lock document
ComposerLock(packages, packagesDev) ==
  Json(Null, Null, <<>>, <<>>, <<>>, packages, packagesDev)

Req(key, constraint) == [key |-> key, value |-> constraint]
Pkg(name, version)   == [name |-> name, version |-> version]

\* what octokit.rest.repos.getContent finds at a path: the request fails,
\* or the blob does not parse as JSON, or it parses to a document
Missing    == [kind |-> "missing", json |-> ComposerLock(<<>>, <<>>)]
Invalid    == [kind |-> "invalid", json |-> ComposerLock(<<>>, <<>>)]
Blob(json) == [kind |-> "json", json |-> json]

\* obj[key] of a require map, undefined (Null) when the key is absent
Lookup(entries, key) ==
  LET hits == {i \in 1..Len(entries) : entries[i].key = key}
  IN IF hits = {} THEN Null
     ELSE entries[CHOOSE i \in hits : \A j \in hits : j <= i].value

\* the keys of {...require, ...require-dev} in Object.entries order
RECURSIVE Dedup(_)
Dedup(seq) ==
  IF seq = <<>> THEN <<>>
  ELSE LET front == Dedup(SubSeq(seq, 1, Len(seq) - 1))
           last  == seq[Len(seq)]
       IN IF \E i \in 1..Len(front) : front[i] = last THEN front
          ELSE Append(front, last)

Keys(entries) == [i \in 1..Len(entries) |-> entries[i].key]

InSeq(x, seq) == \E i \in 1..Len(seq) : seq[i] = x

(* ------------------------------------------------------------------ *)
(* Pure helpers of dependencyUtils.ts                                  *)
(* ------------------------------------------------------------------ *)

normalizeRepoName(name, org) == org \o "/" \o ToLower(SecondPart(name))

getPackageIdByName(repoName, composerName) == composerName
getPackageId(repoName, composerName) == repoName \o ">" \o composerName

\* what the code reads of a repositories[].url: whether the lowercased
\* url includes 'github.com', the path segments s for which it includes
\* '/s/', and the capture of /github\.com\/[^\/]+\/([^\/\.]+)/
UrlTable ==
  [u \in {"https://github.com/Org/c.git", "https://github.com/other/x.git",
          "https://example.com/org/c.git"} |->
     CASE u = "https://github.com/Org/c.git" ->
            [github |-> TRUE, segments |-> {"github.com", "org"}, repo |-> "c"]
       [] u = "https://github.com/other/x.git" ->
            [github |-> TRUE, segments |-> {"github.com", "other"}, repo |-> "x"]
       [] u = "https://example.com/org/c.git" ->
            [github |-> FALSE, segments |-> {"example.com", "org"}, repo |-> Null]]

\* the dependencies contributed by the require / require-dev keys
RequireDeps(composerJson, org) ==
  LET allDeps == Dedup(Keys(composerJson.require) \o Keys(composerJson.requireDev))
      kept    == SelectSeq(allDeps, LAMBDA dep : StartsWithOrg(ToLower(dep), ToLower(org)))
  IN [i \in 1..Len(kept) |-> normalizeRepoName(kept[i], org)]

\* the dependencies contributed by the repositories urls
UrlDeps(composerJson, org) ==
  LET hit(u) == /\ UrlTable[u].github
                /\ (ToLower(org) \in UrlTable[u].segments
                    \/ org \in UrlTable[u].segments)
                /\ UrlTable[u].repo # Null
      kept   == SelectSeq(composerJson.repositories, hit)
  IN [i \in 1..Len(kept) |-> org \o "/" \o ToLower(UrlTable[kept[i]].repo)]

\* a Set in insertion order
extractDependencies(composerJson, org) ==
  Dedup(RequireDeps(composerJson, org) \o UrlDeps(composerJson, org))

(* ------------------------------------------------------------------ *)
(* Version strings.  The version helpers take strings apart, so their  *)
(* arguments are sequences of one-character strings; Str gives the     *)
(* string such a sequence spells.                                      *)
(* ------------------------------------------------------------------ *)

\* \d
Digits == <<"0", "1", "2", "3", "4", "5", "6", "7", "8", "9">>
DigitSet == {Digits[d] : d \in 1..Len(Digits)}
IsDigit(c) == c \in DigitSet
DigitValue(c) == (CHOOSE d \in 1..Len(Digits) : Digits[d] = c) - 1

\* [\w.] (the model spells with lower-case letters only)
Letters == {"a", "b", "c", "d", "e", "f", "g", "h", "i", "j", "k", "l", "m",
            "n", "o", "p", "q", "r", "s", "t", "u", "v", "w", "x", "y", "z"}
WordDotSet == DigitSet \cup Letters \cup {"_", "."}

\* parseInt(digits, 10)
RECURSIVE parseInt(_)
parseInt(ds) ==
  IF ds = <<>> THEN 0
  ELSE parseInt(SubSeq(ds, 1, Len(ds) - 1)) * 10 + DigitValue(ds[Len(ds)])

\* where the longest run of characters of `set` that starts at i ends
\* (i - 1 when s[i] is not in the set): a greedy \d+ or [\w.]+
RECURSIVE RunEnd(_, _, _)
RunEnd(s, i, set) ==
  IF i <= Len(s) /\ s[i] \in set THEN RunEnd(s, i + 1, set) ELSE i - 1

\* version.replace(/^v/, '')
StripV(t) == IF t # <<>> /\ t[1] = "v" THEN Tail(t) ELSE t

NoVersion == [major |-> 0, minor |-> 0, patch |-> 0, prerelease |-> Null]

\* parseVersion: /^(\d+)(?:\.(\d+))?(?:\.(\d+))?(?:-(.+))?$/ matched from the
\* left, each group taking all it can; X and X.Y are completed with zeros
RECURSIVE parseVersion(_)
parseVersion(version) ==
  LET \* where a group \.(\d+) that follows position e ends (e when there is none)
      Group(s, e) ==
        IF e >= 1 /\ e + 2 <= Len(s) /\ s[e + 1] = "." /\ IsDigit(s[e + 2])
        THEN RunEnd(s, e + 2, DigitSet)
        ELSE e
      \* the groups end at e1, e2, e3; a group is there when it ends further on
      Matched(cleanVersion, e1, e2, e3) ==
        IF e2 > e1 /\ e3 = e2 /\ e2 = Len(cleanVersion)
        THEN parseVersion(cleanVersion \o <<".", "0">>)
        ELSE IF e1 >= 1 /\ e1 = Len(cleanVersion)
        THEN parseVersion(cleanVersion \o <<".", "0", ".", "0">>)
        ELSE IF ~(/\ e1 >= 1
                  /\ \/ e3 = Len(cleanVersion)
                     \/ e3 + 2 <= Len(cleanVersion) /\ cleanVersion[e3 + 1] = "-")
        THEN NoVersion
        ELSE [major |-> parseInt(SubSeq(cleanVersion, 1, e1)),
              minor |-> IF e2 > e1 THEN parseInt(SubSeq(cleanVersion, e1 + 2, e2)) ELSE 0,
              patch |-> IF e3 > e2 THEN parseInt(SubSeq(cleanVersion, e2 + 2, e3)) ELSE 0,
              prerelease |->
                IF e3 + 2 <= Len(cleanVersion) /\ cleanVersion[e3 + 1] = "-"
                THEN Str(SubSeq(cleanVersion, e3 + 2, Len(cleanVersion)))
                ELSE Null]
      Third(cleanVersion, e1, e2) ==
        Matched(cleanVersion, e1, e2, IF e2 > e1 THEN Group(cleanVersion, e2) ELSE e2)
      Second(cleanVersion, e1) == Third(cleanVersion, e1, Group(cleanVersion, e1))
      First(cleanVersion) == Second(cleanVersion, RunEnd(cleanVersion, 1, DigitSet))
  IN First(StripV(version))

\* the first match of /\d+(?:\.\d+)*(?:-[\w.]+)?/ in s, empty when there is none
FirstDigit(s) ==
  IF \E i \in 1..Len(s) : IsDigit(s[i])
  THEN CHOOSE i \in 1..Len(s) : IsDigit(s[i]) /\ \A j \in 1..(i - 1) : ~IsDigit(s[j])
  ELSE 0

\* (?:\.\d+)* after a match that ends at e
RECURSIVE DottedEnd(_, _)
DottedEnd(s, e) ==
  IF e + 2 <= Len(s) /\ s[e + 1] = "." /\ IsDigit(s[e + 2])
  THEN DottedEnd(s, RunEnd(s, e + 2, DigitSet))
  ELSE e

\* (?:-[\w.]+)? after a match that ends at e
SuffixEnd(s, e) ==
  IF e + 2 <= Len(s) /\ s[e + 1] = "-" /\ s[e + 2] \in WordDotSet
  THEN RunEnd(s, e + 2, WordDotSet)
  ELSE e

VersionMatch(s) ==
  LET From(first) ==
        IF first = 0 THEN <<>>
        ELSE SubSeq(s, first, SuffixEnd(s, DottedEnd(s, RunEnd(s, first, DigitSet))))
  IN From(FirstDigit(s))

\* current.match(...)?.[0] || current
CleanUp(s) ==
  LET Or0(match) == IF match # <<>> THEN match ELSE s
  IN Or0(VersionMatch(s))

VersionInfo(current, latest, type) ==
  [current |-> current, latest |-> latest, type |-> type]

IsZero(v) == v.major = 0 /\ v.minor = 0 /\ v.patch = 0

getVersionDifferenceNumbersOnly(current, latest) ==
  LET Difference(currentVersion, latestVersion) ==
        IF current = <<>> \/ latest = <<>> THEN VersionInfo(current, latest, "none")
        ELSE IF latestVersion.major > currentVersion.major
        THEN VersionInfo(current, latest, "major")
        ELSE IF /\ latestVersion.major = currentVersion.major
                /\ latestVersion.minor > currentVersion.minor
        THEN VersionInfo(current, latest, "minor")
        ELSE IF /\ latestVersion.major = currentVersion.major
                /\ latestVersion.minor = currentVersion.minor
                /\ latestVersion.patch > currentVersion.patch
        THEN VersionInfo(current, latest, "patch")
        ELSE VersionInfo(current, latest, "none")
  IN Difference(parseVersion(CleanUp(current)), parseVersion(CleanUp(latest)))

getVersionDifference(current, latest) ==
  LET Difference(currentVersion, latestVersion) ==
        IF current = <<>> \/ latest = <<>> THEN VersionInfo(current, latest, "none")
        ELSE IF IsZero(currentVersion) /\ IsZero(latestVersion)
        THEN VersionInfo(current, latest, "none")
        ELSE IF /\ currentVersion.major = latestVersion.major
                /\ currentVersion.minor = latestVersion.minor
                /\ currentVersion.patch = latestVersion.patch
                /\ currentVersion.prerelease # Null
                /\ latestVersion.prerelease = Null
        THEN VersionInfo(current, latest, "patch")
        ELSE IF \/ latestVersion.prerelease # Null /\ currentVersion.prerelease = Null
                \/ latestVersion.prerelease # Null /\ currentVersion.prerelease # Null
        THEN VersionInfo(current, latest, "none")
        ELSE IF latestVersion.major > currentVersion.major
        THEN VersionInfo(current, latest, "major")
        ELSE IF /\ latestVersion.major = currentVersion.major
                /\ latestVersion.minor > currentVersion.minor
        THEN VersionInfo(current, latest, "minor")
        ELSE IF /\ latestVersion.major = currentVersion.major
                /\ latestVersion.minor = currentVersion.minor
                /\ latestVersion.patch > currentVersion.patch
        THEN VersionInfo(current, latest, "patch")
        ELSE VersionInfo(current, latest, "none")
  IN Difference(parseVersion(CleanUp(current)), parseVersion(CleanUp(latest)))

\* sortVersions(a, b) < 0 : a sorts before b (descending by major, minor, patch)
SortsBefore(a, b) ==
  LET Before(va, vb) ==
        \/ va.major > vb.major
        \/ va.major = vb.major /\ va.minor > vb.minor
        \/ va.major = vb.major /\ va.minor = vb.minor /\ va.patch > vb.patch
  IN Before(parseVersion(a), parseVersion(b))

\* the first element of tags.sort(sortVersions): the sort is stable, so it is
\* the earliest tag that no other tag sorts before
FirstSorted(tags) ==
  tags[CHOOSE i \in 1..Len(tags) :
         /\ \A j \in 1..Len(tags) : ~SortsBefore(tags[j], tags[i])
         /\ \A k \in 1..(i - 1) : \E j \in 1..Len(tags) : SortsBefore(tags[j], tags[k])]

SelectLatestOfAll(allTags) ==
  IF allTags = <<>> THEN Null ELSE Str(StripV(FirstSorted(allTags)))

\* the selection getLatestTag makes among all the tags it fetched
SelectLatest(allTags) ==
  LET stableVersions     == SelectSeq(allTags, LAMBDA t : parseVersion(t).prerelease = Null)
      prereleaseVersions == SelectSeq(allTags, LAMBDA t : parseVersion(t).prerelease # Null)
  IN IF allTags = <<>> THEN Null
     ELSE IF stableVersions # <<>> THEN Str(StripV(FirstSorted(stableVersions)))
     ELSE IF prereleaseVersions # <<>> THEN Str(StripV(FirstSorted(prereleaseVersions)))
     ELSE Null

(* ------------------------------------------------------------------ *)
(* The forge.  Every repository of the organization has a default      *)
(* branch tree, blobs at some paths and a list of tags; any request    *)
(* may fail.  The contents are chosen in Init and never change, so two *)
(* runs of one behaviour see the same forge.                           *)
(* ------------------------------------------------------------------ *)

organization == "org"

\* paths are sequences of characters
ComposerJsonName == <<"c", "o", "m", "p", "o", "s", "e", "r", ".", "j", "s", "o", "n">>
ComposerLockName == <<"c", "o", "m", "p", "o", "s", "e", "r", ".", "l", "o", "c", "k">>
SvcDir           == <<"s", "v", "c">>

RootManifest == ComposerJsonName
SvcManifest  == SvcDir \o <<"/">> \o ComposerJsonName
RootLock     == ComposerLockName
SvcLock      == SvcDir \o <<"/">> \o ComposerLockName
OtherJson    == <<"o", "t", "h", "e", "r", ".", "j", "s", "o", "n">>

Paths == {RootManifest, SvcManifest, RootLock, SvcLock, OtherJson}

\* item.path.toLowerCase().endsWith('composer.json')
EndsWithComposerJson(path) == EndsWith(LowerChars(path), ComposerJsonName)

\* path.replace('composer.json', 'composer.lock')
ReplaceComposerJson(path) == Replace(path, ComposerJsonName, ComposerLockName)

BlobItem(path) == [type |-> "blob", path |-> path]
TreeItem(path) == [type |-> "tree", path |-> path]

Files(root, rootLock, svc, svcLock) ==
  [p \in Paths |->
     CASE p = RootManifest -> root
       [] p = SvcManifest  -> svc
       [] p = RootLock     -> rootLock
       [] p = SvcLock      -> svcLock
       [] OTHER            -> Invalid]

Repo(accessible, treeOk, tree, files, tagsOk, tags) ==
  [accessible |-> accessible, treeOk |-> treeOk, tree |-> tree,
   files |-> files, tagsOk |-> tagsOk, tags |-> tags]

RootOnly == <<BlobItem(RootManifest), BlobItem(OtherJson)>>
SvcOnly  == <<TreeItem(SvcDir), BlobItem(SvcManifest)>>
RootSvc  == <<BlobItem(RootManifest), TreeItem(SvcDir), BlobItem(SvcManifest)>>

\* tag names, as the characters they are spelt with
Tag100     == <<"1", ".", "0", ".", "0">>
TagV120    == <<"v", "1", ".", "2", ".", "0">>
TagV200    == <<"v", "2", ".", "0", ".", "0">>
TagV210b   == <<"v", "2", ".", "1", ".", "0", "-", "b", "e", "t", "a">>
TagV090rc1 == <<"v", "0", ".", "9", ".", "0", "-", "r", "c", "1">>

TagsA == <<Tag100, TagV120>>

\* the contents repository "a" may have
CatalogA == <<
  \* one manifest, no lock file; runtime and foreign requirements beside org/b
  Repo(TRUE, TRUE, RootOnly,
       Files(Blob(ComposerJson("org/a", Null,
                    <<Req("php", ">=8.2"), Req("org/b", "^1.0"), Req("other/x", "^2.0")>>,
                    <<>>, <<>>)),
             Missing, Missing, Missing),
       TRUE, TagsA),
  \* one manifest whose lock file pins org/b
  Repo(TRUE, TRUE, RootOnly,
       Files(Blob(ComposerJson("org/a", "0.1.0", <<Req("org/b", "^1.0")>>, <<>>, <<>>)),
             Blob(ComposerLock(<<Pkg("org/b", "3.4.1")>>, <<>>)),
             Missing, Missing),
       TRUE, <<>>),
  \* two manifests that declare the same package, with different pins of org/b
  Repo(TRUE, TRUE, RootSvc,
       Files(Blob(ComposerJson("org/a", Null, <<Req("org/b", "^1.0")>>, <<>>, <<>>)),
             Blob(ComposerLock(<<Pkg("org/b", "1.0.0")>>, <<>>)),
             Blob(ComposerJson("org/a", Null, <<Req("org/b", "^2.0")>>, <<>>, <<>>)),
             Blob(ComposerLock(<<Pkg("org/b", "2.0.0")>>, <<>>))),
       TRUE, TagsA),
  \* a single manifest below the root, with a repositories entry for Org/c
  Repo(TRUE, TRUE, SvcOnly,
       Files(Missing, Missing,
             Blob(ComposerJson("org/a", Null, <<>>, <<>>,
                    <<"https://github.com/Org/c.git", "https://github.com/other/x.git">>)),
             Missing),
       TRUE, TagsA),
  \* the root manifest cannot be fetched, the second one can; its lock is garbage
  Repo(TRUE, TRUE, RootSvc,
       Files(Missing, Missing,
             Blob(ComposerJson("org/a", Null, <<Req("org/b2", "^1.0")>>, <<>>, <<>>)),
             Invalid),
       FALSE, <<>>),
  \* a manifest without a name
  Repo(TRUE, TRUE, RootOnly,
       Files(Blob(ComposerJson(Null, Null, <<Req("org/b", "^1.0")>>, <<>>, <<>>)),
             Missing, Missing, Missing),
       TRUE, TagsA),
  \* the tree cannot be listed
  Repo(TRUE, FALSE, RootOnly,
       Files(Blob(ComposerJson("org/a", Null, <<Req("org/b", "^1.0")>>, <<>>, <<>>)),
             Missing, Missing, Missing),
       TRUE, TagsA),
  \* requirements in require and require-dev, the latter pinned in packages-dev
  Repo(TRUE, TRUE, RootOnly,
       Files(Blob(ComposerJson("org/a", Null, <<Req("org/B", "^1.0")>>,
                    <<Req("org/b2", "^0.3")>>, <<>>)),
             Blob(ComposerLock(<<>>, <<Pkg("org/b2", "0.3.7")>>)),
             Missing, Missing),
       TRUE, TagsA),
  \* two manifests that both require org/c, a package of no selected repository
  Repo(TRUE, TRUE, RootSvc,
       Files(Blob(ComposerJson("org/a", Null, <<Req("org/c", "^1.0")>>, <<>>, <<>>)),
             Missing,
             Blob(ComposerJson("org/a", Null, <<Req("org/c", "^1.0")>>, <<>>, <<>>)),
             Missing),
       TRUE, TagsA) >>

\* the contents repository "b" may have
CatalogB == <<
  \* one manifest; its lock file pins its own package
  Repo(TRUE, TRUE, RootOnly,
       Files(Blob(ComposerJson("org/b", Null, <<>>, <<>>, <<>>)),
             Blob(ComposerLock(<<Pkg("org/b", "3.4.1")>>, <<>>)),
             Missing, Missing),
       TRUE, <<TagV200, TagV210b>>),
  \* two manifests that declare two packages
  Repo(TRUE, TRUE, RootSvc,
       Files(Blob(ComposerJson("org/b", Null, <<>>, <<>>, <<>>)),
             Missing,
             Blob(ComposerJson("org/b2", Null, <<Req("org/b", "^2.0")>>, <<>>, <<>>)),
             Missing),
       FALSE, <<>>),
  \* a manifest that declares the package name repository "a" declares
  Repo(TRUE, TRUE, RootOnly,
       Files(Blob(ComposerJson("org/a", Null, <<>>, <<>>, <<>>)),
             Missing, Missing, Missing),
       TRUE, <<>>),
  \* a manifest that requires org/a, pinned by its lock file
  Repo(TRUE, TRUE, RootOnly,
       Files(Blob(ComposerJson("org/b", "2.2.0", <<Req("org/a", "^1.0")>>, <<>>, <<>>)),
             Blob(ComposerLock(<<Pkg("org/a", "1.1.0")>>, <<>>)),
             Missing, Missing),
       TRUE, <<TagV090rc1>>),
  \* no manifest in the tree
  Repo(TRUE, TRUE, <<BlobItem(OtherJson), TreeItem(RootManifest)>>,
       Files(Missing, Missing, Missing, Missing),
       TRUE, <<TagV200>>),
  \* a manifest that is not JSON
  Repo(TRUE, TRUE, RootOnly,
       Files(Invalid, Missing, Missing, Missing),
       TRUE, <<TagV200>>),
  \* the repository cannot be read at all
  Repo(FALSE, FALSE, <<>>,
       Files(Missing, Missing, Missing, Missing),
       FALSE, <<>>),
  \* a manifest that requires org/c, pinned by its lock file
  Repo(TRUE, TRUE, RootOnly,
       Files(Blob(ComposerJson("org/b", Null, <<Req("org/c", "^1.0")>>, <<>>, <<>>)),
             Blob(ComposerLock(<<Pkg("org/c", "1.5.0")>>, <<>>)),
             Missing, Missing),
       TRUE, <<TagV200>>) >>

RepoNames == {"a", "b"}

RepositoryRef(name, selected) ==
  [name |-> name, selected |-> selected, defaultBranch |-> "main"]

\* the repositories list of the store: both repositories, in either order,
\* each selected or not
RepositoryLists ==
  { <<RepositoryRef(n1, s1), RepositoryRef(n2, s2)>> :
      n1 \in RepoNames, n2 \in RepoNames, s1 \in BOOLEAN, s2 \in BOOLEAN }

VARIABLES
  \* the forge and the client library
  forge,              \* repository name -> which contents of its catalog it has
  octokitThrows,      \* whether new Octokit(...) throws
  unauthorized,       \* whether the forge rejects every request of the token
  \* the store
  repositories, graphData, isLoading, error, progress, hasAttemptedFetch,
  stateOrganization,  \* the store's organization (fetchDependencies reads it
                      \* once, into its local organization)
  isLoadingRepos, orgCache,
  fetching,           \* the fetchRepositories calls awaiting octokit.paginate
  effectPending,      \* the effect of OrganizationSelect on selectedOrg is due
  selections,         \* organizations selected so far
  \* the locals of the run of fetchDependencies in flight
  pc, selectedRepos, nodes, links, processedDeps, versionMap, packageMap,
  index, composerFiles, isPhp, dependencies, latestTag, fileIdx,
  composerJson, deps,
  pending,            \* the async forEach callbacks awaiting getLatestTag
  published,          \* graphData.links is the run's links array itself
  \* what an observer of the store and of the forge has seen
  runs,               \* invocations of fetchDependencies so far
  progressLog,        \* the progress snapshots the run in flight has emitted
  forgeCalls,         \* forge requests answered since the last invocation
  prevGraph,          \* graphData when the run in flight replaced it
  prevSettled,        \* ... and whether the run before had no callback left
  \* a helper of dependencyUtils.ts called on its own
  args,               \* the arguments of the call
  result              \* what it returned, once it has

storeVars == <<repositories, graphData, isLoading, error, progress, hasAttemptedFetch>>
localVars == <<pc, selectedRepos, nodes, links, processedDeps, versionMap, packageMap,
               index, composerFiles, isPhp, dependencies, latestTag, fileIdx,
               composerJson, deps, pending, published>>
seenVars  == <<runs, progressLog, forgeCalls, prevGraph, prevSettled>>
callVars  == <<args, result>>
repoVars  == <<stateOrganization, isLoadingRepos, orgCache, fetching, effectPending,
               selections>>
vars      == <<forge, octokitThrows, unauthorized, storeVars, repoVars, localVars,
               seenVars, callVars>>

NoJson == ComposerLock(<<>>, <<>>)

\* no helper has been called on its own / what a call returned
NoResult    == [returned |-> FALSE, value |-> Null]
Returned(v) == [returned |-> TRUE, value |-> v]

\* the store as createDependencySlice leaves it, and no run in flight
InitStore ==
  /\ graphData = EmptyGraph
  /\ isLoading = FALSE
  /\ error = Null
  /\ progress = NoProgress
  /\ hasAttemptedFetch = FALSE
  /\ isLoadingRepos = FALSE
  /\ orgCache = <<>>
  /\ fetching = {}
  /\ effectPending = FALSE
  /\ selections = 0
  /\ pc = "idle"
  /\ selectedRepos = <<>>
  /\ nodes = <<>>
  /\ links = <<>>
  /\ processedDeps = {}
  /\ versionMap = <<>>
  /\ packageMap = <<>>
  /\ index = 0
  /\ composerFiles = <<>>
  /\ isPhp = FALSE
  /\ dependencies = <<>>
  /\ latestTag = Null
  /\ fileIdx = 0
  /\ composerJson = NoJson
  /\ deps = <<>>
  /\ pending = {}
  /\ published = FALSE
  /\ runs = 0
  /\ progressLog = <<>>
  /\ forgeCalls = 0
  /\ prevGraph = EmptyGraph
  /\ prevSettled = TRUE

Init ==
  /\ forge \in {[n \in RepoNames |-> IF n = "a" THEN ka ELSE kb] :
                  ka \in 1..Len(CatalogA), kb \in 1..Len(CatalogB)}
  /\ octokitThrows \in BOOLEAN
  /\ unauthorized \in BOOLEAN
  /\ repositories \in {l \in RepositoryLists : l[1].name # l[2].name}
  /\ stateOrganization = organization
  /\ InitStore
  /\ args = <<>>
  /\ result = NoResult

(* ------------------------------------------------------------------ *)
(* The helpers of dependencyUtils.ts that call the forge               *)
(* ------------------------------------------------------------------ *)

\* the forge answers requests about the repository: the token is accepted
\* and the repository is one of the organization
Known(repo) == ~unauthorized /\ repo \in DOMAIN forge

\* the contents of a repository of the forge
Forge(repo) == IF repo = "a" THEN CatalogA[forge[repo]] ELSE CatalogB[forge[repo]]

\* tree.tree.filter(blob whose path ends in composer.json).map(item => item.path)
ManifestPathsAll(tree) == [i \in 1..Len(tree) |-> tree[i].path]
ManifestPaths(tree) ==
  LET blobs == SelectSeq(tree,
                 LAMBDA item : item.type = "blob" /\ EndsWithComposerJson(item.path))
  IN [i \in 1..Len(blobs) |-> blobs[i].path]

\* findComposerFiles against a repository with the contents r
ComposerFilesOf(r) ==
  IF ~r.accessible THEN <<>>
  ELSE IF ~r.treeOk THEN <<>>
  ELSE ManifestPaths(r.tree)

\* the paths findComposerFiles returns for a repository
findComposerFiles(repo) ==
  IF ~Known(repo) THEN <<>> ELSE ComposerFilesOf(Forge(repo))

\* the requests findComposerFiles makes: repos.get, then git.getTree
FindComposerFilesCalls(repo) ==
  IF Known(repo) /\ Forge(repo).accessible THEN 2 ELSE 1

\* what repos.getContent answers for a path of a repository
GetContent(repo, path) ==
  IF Known(repo) /\ Forge(repo).accessible /\ path \in DOMAIN Forge(repo).files
  THEN Forge(repo).files[path]
  ELSE Missing

\* getComposerLock: the parsed lock file, or null; hasLock tells them apart
LockFrom(file) ==
  IF file.kind = "json" THEN [hasLock |-> TRUE, json |-> file.json]
  ELSE [hasLock |-> FALSE, json |-> NoJson]

getComposerLock(repo, path) ==
  LockFrom(GetContent(repo, ReplaceComposerJson(path)))

\* getLatestTag: null when the tags cannot be listed or there are none
getLatestTag(repo) ==
  IF ~Known(repo) \/ ~Forge(repo).tagsOk THEN Null
  ELSE SelectLatest(Forge(repo).tags)

(* ------------------------------------------------------------------ *)
(* Maps of the run                                                     *)
(* ------------------------------------------------------------------ *)

MapHas(m, k)    == k \in DOMAIN m
MapGet(m, k)    == IF k \in DOMAIN m THEN m[k] ELSE Null
MapSet(m, k, v) == [x \in (DOMAIN m) \cup {k} |-> IF x = k THEN v ELSE m[x]]

\* nodes is a Map from id to node; it is kept as the sequence of its values
\* in insertion order, which is what Array.from(nodes.values()) yields
NodeIds(ns)    == {ns[i].id : i \in 1..Len(ns)}
HasNode(ns, id) == id \in NodeIds(ns)
NodeAt(ns, id) == ns[CHOOSE i \in 1..Len(ns) : ns[i].id = id]
SetNode(ns, node) ==
  IF HasNode(ns, node.id)
  THEN [i \in 1..Len(ns) |-> IF ns[i].id = node.id THEN node ELSE ns[i]]
  ELSE Append(ns, node)

NodeRec(id, name, version, color, isMonorepo, monorepoName, files, branch) ==
  [id |-> id, name |-> name, version |-> version, color |-> color,
   isMonorepo |-> isMonorepo, monorepoName |-> monorepoName,
   composerFiles |-> files, defaultBranch |-> branch]

\* the node of a repository's own manifest (isMonorepo as the code decides it)
OwnNode(packageId, packageName, tag, json, composerPath, repo) ==
  LET isMonorepo == composerPath # ComposerJsonName
  IN NodeRec(packageId, SecondPart(packageName),
             Or(tag, Or(json.version, DevMain)),
             IF isMonorepo THEN ColorMonorepo ELSE ColorProject,
             isMonorepo,
             IF isMonorepo THEN repo.name ELSE Null,
             <<composerPath>>, repo.defaultBranch)

\* the node of a dependency: it has no fields beyond id, name, version, color
DepNode(depId, normalizedDep, depLatestTag, vmap) ==
  NodeRec(depId, SecondPart(normalizedDep),
          Or(depLatestTag, Or(MapGet(vmap, normalizedDep), DevMain)),
          ColorDependency, FALSE, Null, <<>>, Null)

LinkRec(source, target, version) ==
  [source |-> source, target |-> target, version |-> version]

LinkKey(packageId, depId) == packageId \o "-" \o depId

LinkVersionRawFirst(vmap, json, dep, normalizedDep) ==
  Or(Lookup(json.require, dep),
     Or(Lookup(json.requireDev, dep),
        Or(MapGet(vmap, normalizedDep), DevMain)))

\* the version a link gets when it is created
LinkVersion(vmap, json, dep, normalizedDep) ==
  Or(MapGet(vmap, normalizedDep),
     Or(Lookup(json.require, dep),
        Or(Lookup(json.requireDev, dep), DevMain)))

PushLinkAlways(st, vmap, packageId, depId, json, dep, normalizedDep) ==
  [st EXCEPT
     !.links = Append(@, LinkRec(packageId, depId,
                                 LinkVersion(vmap, json, dep, normalizedDep))),
     !.processedDeps = @ \cup {LinkKey(packageId, depId)}]

\* if (!processedDeps.has(linkKey)) { links.push(...); processedDeps.add(linkKey) }
\* on a state st = [nodes, links, processedDeps, pending]
PushLink(st, vmap, packageId, depId, json, dep, normalizedDep) ==
  IF LinkKey(packageId, depId) \in st.processedDeps THEN st
  ELSE [st EXCEPT
          !.links = Append(@, LinkRec(packageId, depId,
                                      LinkVersion(vmap, json, dep, normalizedDep))),
          !.processedDeps = @ \cup {LinkKey(packageId, depId)}]

\* the closure of one callback of deps.forEach(async dep => ...) that is
\* suspended in await getLatestTag(octokit, organization, depRepo)
Callback(repo, path, packageId, json, dep, normalizedDep, depId) ==
  [repo |-> repo, path |-> path, packageId |-> packageId, json |-> json,
   dep |-> dep, normalizedDep |-> normalizedDep, depId |-> depId]

\* deps.forEach(async dep => ...) from the i-th dependency on: each callback
\* runs up to its first await, in order, before forEach returns
RECURSIVE StartCallbacks(_, _, _, _, _, _, _, _)
StartCallbacks(ds, i, st, vmap, pmap, repo, path, packageId) ==
  IF i > Len(ds) THEN st
  ELSE LET dep           == ds[i]
           normalizedDep == ToLower(dep)
           depId         == Or(MapGet(pmap, normalizedDep), normalizedDep)
           json          == composerJson
           next ==
             IF ~HasNode(st.nodes, depId)
             THEN [st EXCEPT !.pending = @ \cup
                     {Callback(repo, path, packageId, json, dep, normalizedDep, depId)}]
             ELSE PushLink(st, vmap, packageId, depId, json, dep, normalizedDep)
       IN StartCallbacks(ds, i + 1, next, vmap, pmap, repo, path, packageId)

\* the first deps.forEach: the dependencies list of the progress snapshot
RECURSIVE CollectDependencies(_, _, _)
CollectDependencies(ds, i, acc) ==
  IF i > Len(ds) THEN acc
  ELSE CollectDependencies(ds, i + 1,
         IF InSeq(ToLower(ds[i]), acc) THEN acc ELSE Append(acc, ToLower(ds[i])))

\* allPackages.find(p => p.name.toLowerCase() === normalizedDep)
LockPackage(lock, normalizedDep) ==
  LET allPackages == lock.packages \o lock.packagesDev
      hits == {k \in 1..Len(allPackages) : ToLower(allPackages[k].name) = normalizedDep}
  IN IF hits = {} THEN Null
     ELSE allPackages[CHOOSE k \in hits : \A j \in hits : k <= j].version

\* the first deps.forEach: versionMap.set(normalizedDep, lockPackage.version)
RECURSIVE CollectVersions(_, _, _, _)
CollectVersions(ds, i, lock, vmap) ==
  IF i > Len(ds) THEN vmap
  ELSE LET normalizedDep == ToLower(ds[i])
           found == IF lock.hasLock THEN LockPackage(lock.json, normalizedDep) ELSE Null
       IN CollectVersions(ds, i + 1, lock,
            IF lock.hasLock /\ found # Null
            THEN MapSet(vmap, normalizedDep, found) ELSE vmap)

(* ------------------------------------------------------------------ *)
(* fetchDependencies                                                   *)
(* ------------------------------------------------------------------ *)

CurrentRepo == selectedRepos[index]
CurrentPath == composerFiles[fileIdx]

SnapshotZeroBased(dependenciesNow) ==
  [total |-> Len(selectedRepos), current |-> index - 1, currentRepo |-> CurrentRepo.name,
   isPhp |-> isPhp, dependencies |-> dependenciesNow]

\* set({ progress: {...} }): index of the model is index + 1 of the code
Snapshot(dependenciesNow) ==
  [total |-> Len(selectedRepos), current |-> index, currentRepo |-> CurrentRepo.name,
   isPhp |-> isPhp, dependencies |-> dependenciesNow]

\* if (graphData.nodes.length === 0)
IsEmptyResultByLinks(nodesNow, linksNow) == Len(linksNow) = 0
IsEmptyResult(nodesNow, linksNow) == Len(nodesNow) = 0

\* the same steps with a terminal update that does not clear isLoading
ContinueFromStillLoading(moreManifests, nodesNow, linksNow, dependenciesNow) ==
  IF moreManifests
  THEN /\ pc' = "getContent"
       /\ fileIdx' = fileIdx + 1
       /\ UNCHANGED <<index, graphData, isLoading, error, progress, published,
                      progressLog>>
  ELSE /\ progressLog' = Append(progressLog, Snapshot(dependenciesNow))
       /\ fileIdx' = fileIdx
       /\ IF index < Len(selectedRepos)
          THEN /\ pc' = "findFiles"
               /\ index' = index + 1
               /\ progress' = Snapshot(dependenciesNow)
               /\ UNCHANGED <<graphData, isLoading, error, published>>
          ELSE /\ pc' = "done"
               /\ index' = index
               /\ isLoading' = isLoading
               /\ progress' = NoProgress
               /\ IF IsEmptyResult(nodesNow, linksNow)
                  THEN /\ error' = ErrNoDeps
                       /\ UNCHANGED <<graphData, published>>
                  ELSE /\ graphData' = [nodes |-> nodesNow, links |-> linksNow]
                       /\ published' = TRUE
                       /\ UNCHANGED error

\* The code that follows the handling of one manifest, up to the next await:
\* the next manifest of the repository; or, after the last one, the progress
\* snapshot and the next repository; or, after the last repository, the
\* terminal update of the store.  nodesNow and linksNow are the run's nodes
\* and links, dependenciesNow the repository's dependencies list, at that point.
ContinueFrom(moreManifests, nodesNow, linksNow, dependenciesNow) ==
  IF moreManifests
  THEN /\ pc' = "getContent"
       /\ fileIdx' = fileIdx + 1
       /\ UNCHANGED <<index, graphData, isLoading, error, progress, published,
                      progressLog>>
  ELSE /\ progressLog' = Append(progressLog, Snapshot(dependenciesNow))
       /\ fileIdx' = fileIdx
       /\ IF index < Len(selectedRepos)
          THEN /\ pc' = "findFiles"
               /\ index' = index + 1
               /\ progress' = Snapshot(dependenciesNow)
               /\ UNCHANGED <<graphData, isLoading, error, published>>
          ELSE /\ pc' = "done"
               /\ index' = index
               /\ isLoading' = FALSE
               /\ progress' = NoProgress
               /\ IF IsEmptyResult(nodesNow, linksNow)
                  THEN /\ error' = ErrNoDeps
                       /\ UNCHANGED <<graphData, published>>
                  ELSE /\ graphData' = [nodes |-> nodesNow, links |-> linksNow]
                       /\ published' = TRUE
                       /\ UNCHANGED error

\* for (const composerPath of composerFiles): whether a manifest is left
ContinueFirstOnly(nodesNow, linksNow, dependenciesNow) ==
  ContinueFrom(fileIdx = 0 /\ fileIdx < Len(composerFiles),
               nodesNow, linksNow, dependenciesNow)
Continue(nodesNow, linksNow, dependenciesNow) ==
  ContinueFrom(fileIdx < Len(composerFiles), nodesNow, linksNow, dependenciesNow)

\* if (!selectedRepos.length)
NoneSelectedNever(selected) == FALSE
NoneSelected(selected) == Len(selected) = 0

\* fetchDependencies() is called: the guard on the selection, the reset of the
\* store, the construction of the client, and the first findComposerFiles call
FetchDependencies ==
  /\ pc \in {"idle", "done"}
  /\ runs < MaxRuns
  /\ runs' = runs + 1
  /\ LET selected == SelectSeq(repositories, LAMBDA repo : repo.selected)
     IN IF NoneSelected(selected)
        THEN /\ error' = ErrSelect
             /\ UNCHANGED <<graphData, isLoading, progress, hasAttemptedFetch,
                            localVars, progressLog, forgeCalls, prevGraph, prevSettled>>
        ELSE /\ hasAttemptedFetch' = TRUE
             /\ selectedRepos' = selected
             /\ nodes' = <<>>
             /\ links' = <<>>
             /\ processedDeps' = {}
             /\ versionMap' = <<>>
             /\ packageMap' = <<>>
             \* the callbacks of the run before keep running, but on the maps
             \* and the links array of that run, which nothing refers to any more
             /\ pending' = {}
             /\ published' = FALSE
             /\ progressLog' = <<>>
             /\ forgeCalls' = 0
             /\ prevGraph' = graphData
             /\ prevSettled' = (pending = {})
             /\ graphData' = EmptyGraph
             /\ progress' = NoProgress
             /\ composerFiles' = <<>>
             /\ isPhp' = FALSE
             /\ dependencies' = <<>>
             /\ latestTag' = Null
             /\ fileIdx' = 0
             /\ composerJson' = NoJson
             /\ deps' = <<>>
             /\ IF octokitThrows
                THEN /\ pc' = "done"
                     /\ index' = 0
                     /\ error' = ErrFetch
                     /\ isLoading' = FALSE
                ELSE /\ pc' = "findFiles"
                     /\ index' = 1
                     /\ error' = Null
                     /\ isLoading' = TRUE
  /\ UNCHANGED <<args, result, repoVars, forge, octokitThrows, unauthorized, repositories>>

\* await findComposerFiles(octokit, organization, repo.name) returns;
\* getLatestTag(octokit, organization, repo.name) is called
FindComposerFilesReturn ==
  /\ pc = "findFiles"
  /\ composerFiles' = findComposerFiles(CurrentRepo.name)
  /\ isPhp' = (Len(findComposerFiles(CurrentRepo.name)) > 0)
  /\ dependencies' = <<>>
  /\ fileIdx' = 0
  /\ forgeCalls' = forgeCalls + FindComposerFilesCalls(CurrentRepo.name)
  /\ pc' = "latestTag"
  /\ UNCHANGED <<args, result, repoVars, forge, octokitThrows, unauthorized, storeVars, selectedRepos, nodes, links,
                 processedDeps, versionMap, packageMap, index, latestTag,
                 composerJson, deps, pending, published, runs, progressLog,
                 prevGraph, prevSettled>>

\* await getLatestTag(...) of the repository returns; the loop over its
\* manifests starts (or, without manifests, the repository is finished)
GetLatestTagReturn ==
  /\ pc = "latestTag"
  /\ latestTag' = getLatestTag(CurrentRepo.name)
  /\ forgeCalls' = forgeCalls + 1
  /\ Continue(nodes, links, dependencies)
  /\ UNCHANGED <<args, result, repoVars, forge, octokitThrows, unauthorized, repositories, hasAttemptedFetch,
                 selectedRepos, nodes, links, processedDeps, versionMap, packageMap,
                 composerFiles, isPhp, dependencies, composerJson, deps, pending,
                 runs, prevGraph, prevSettled>>

\* await octokit.rest.repos.getContent(...) of a manifest returns: a failed
\* request or unparsable content is caught and the manifest skipped; else the
\* dependencies are extracted and getComposerLock is called
GetContentReturn ==
  /\ pc = "getContent"
  /\ forgeCalls' = forgeCalls + 1
  /\ LET file == GetContent(CurrentRepo.name, CurrentPath)
     IN IF file.kind # "json"
        THEN /\ Continue(nodes, links, dependencies)
             /\ UNCHANGED <<composerJson, deps>>
        ELSE /\ composerJson' = file.json
             /\ deps' = extractDependencies(file.json, organization)
             /\ pc' = "getLock"
             /\ UNCHANGED <<index, fileIdx, graphData, isLoading, error, progress,
                            published, progressLog>>
  /\ UNCHANGED <<args, result, repoVars, forge, octokitThrows, unauthorized, repositories, hasAttemptedFetch,
                 selectedRepos, nodes, links, processedDeps, versionMap, packageMap,
                 composerFiles, isPhp, dependencies, latestTag, pending,
                 runs, prevGraph, prevSettled>>

\* await getComposerLock(...) returns: the manifest is processed (package id,
\* lock versions, own node, one callback per dependency) up to the next await
GetComposerLockReturn ==
  /\ pc = "getLock"
  /\ forgeCalls' = forgeCalls + 1
  /\ LET composerLock == getComposerLock(CurrentRepo.name, CurrentPath)
         packageName  == ToLower(composerJson.name)
         packageId    == getPackageId(ToLower(organization \o "/" \o CurrentRepo.name),
                                      packageName)
         pmap         == MapSet(packageMap, packageName, packageId)
         depList      == CollectDependencies(deps, 1, dependencies)
         vmap         == CollectVersions(deps, 1, composerLock, versionMap)
         own          == OwnNode(packageId, packageName, latestTag, composerJson,
                                 CurrentPath, CurrentRepo)
         withOwn      == IF ~HasNode(nodes, packageId) THEN Append(nodes, own)
                         ELSE SetNode(nodes,
                                [NodeAt(nodes, packageId) EXCEPT
                                   !.composerFiles = Append(@, CurrentPath)])
         st           == StartCallbacks(deps, 1,
                           [nodes |-> withOwn, links |-> links,
                            processedDeps |-> processedDeps, pending |-> pending],
                           vmap, pmap, CurrentRepo.name, CurrentPath, packageId)
     IN IF packageName = Null
        THEN /\ Continue(nodes, links, dependencies)
             /\ UNCHANGED <<nodes, links, processedDeps, versionMap, packageMap,
                            dependencies, pending>>
        ELSE /\ packageMap' = pmap
             /\ versionMap' = vmap
             /\ dependencies' = depList
             /\ nodes' = st.nodes
             /\ links' = st.links
             /\ processedDeps' = st.processedDeps
             /\ pending' = st.pending
             /\ Continue(st.nodes, st.links, depList)
  /\ UNCHANGED <<args, result, repoVars, forge, octokitThrows, unauthorized, repositories, hasAttemptedFetch,
                 selectedRepos, composerFiles, isPhp, latestTag, composerJson, deps,
                 runs, prevGraph, prevSettled>>

\* await getLatestTag(octokit, organization, depRepo) returns in a callback of
\* deps.forEach: the dependency's node is set and the link pushed.  links is
\* the array the published graphData holds, so a push after publication shows
\* in the store; nodes was copied by Array.from, so a node set then does not.
CallbackResume(cb) ==
  /\ cb \in pending
  /\ forgeCalls' = forgeCalls + 1
  /\ LET depRepo      == SecondPart(cb.normalizedDep)
         depLatestTag == getLatestTag(depRepo)
         st == PushLink([nodes |-> SetNode(nodes,
                                     DepNode(cb.depId, cb.normalizedDep, depLatestTag,
                                             versionMap)),
                         links |-> links, processedDeps |-> processedDeps,
                         pending |-> pending \ {cb}],
                        versionMap, cb.packageId, cb.depId, cb.json, cb.dep,
                        cb.normalizedDep)
     IN /\ nodes' = st.nodes
        /\ links' = st.links
        /\ processedDeps' = st.processedDeps
        /\ pending' = st.pending
        /\ graphData' = IF published THEN [graphData EXCEPT !.links = st.links]
                        ELSE graphData
  /\ UNCHANGED <<args, result, repoVars, forge, octokitThrows, unauthorized, repositories, isLoading, error, progress,
                 hasAttemptedFetch, pc, selectedRepos, versionMap, packageMap, index,
                 composerFiles, isPhp, dependencies, latestTag, fileIdx, composerJson,
                 deps, published, runs, progressLog, prevGraph, prevSettled>>

Next ==
  \/ FetchDependencies
  \/ FindComposerFilesReturn
  \/ GetLatestTagReturn
  \/ GetContentReturn
  \/ GetComposerLockReturn
  \/ \E cb \in pending : CallbackResume(cb)

Spec == Init /\ [][Next]_vars

\* Every call to the forge eventually returns or fails.  A call is outstanding
\* while the loop waits at an await or a deps.forEach callback waits for its
\* getLatestTag; a return is the step that counts the answered requests (one,
\* or the two of findComposerFiles) into forgeCalls.  No other step of Next
\* raises forgeCalls, so these are the steps of the Return actions and of
\* CallbackResume.  When fetchDependencies is called again is up to the user.
ForgeCallOutstanding ==
  \/ pc \in {"findFiles", "latestTag", "getContent", "getLock"}
  \/ pending # {}

ForgeReturn ==
  /\ ForgeCallOutstanding
  /\ \E answered \in 1..2 : forgeCalls' = forgeCalls + answered

SpecLive == Spec /\ WF_forgeCalls(ForgeReturn)

(* ------------------------------------------------------------------ *)
(* clearGraph and reset, which the user may call at any time, also     *)
(* while a run of fetchDependencies is in flight.  The run in flight   *)
(* keeps its locals and goes on; set() replaces graphData by a new     *)
(* object, so the store no longer holds the run's links array.         *)
(* ------------------------------------------------------------------ *)

\* clearGraph()
ClearGraph ==
  /\ graphData' = EmptyGraph
  /\ isLoading' = FALSE
  /\ progress' = NoProgress
  /\ hasAttemptedFetch' = FALSE
  /\ published' = FALSE
  /\ UNCHANGED <<forge, octokitThrows, unauthorized, repositories, error, repoVars,
                 pc, selectedRepos, nodes, links, processedDeps, versionMap,
                 packageMap, index, composerFiles, isPhp, dependencies, latestTag,
                 fileIdx, composerJson, deps, pending, seenVars, callVars>>

\* reset(): the dependency state as clearGraph leaves it, and the token, the
\* organization, the repositories and the error cleared as well
Reset ==
  /\ error' = Null
  /\ repositories' = <<>>
  /\ graphData' = EmptyGraph
  /\ isLoading' = FALSE
  /\ progress' = NoProgress
  /\ hasAttemptedFetch' = FALSE
  /\ published' = FALSE
  /\ stateOrganization' = Null
  /\ isLoadingRepos' = FALSE
  /\ orgCache' = <<>>
  /\ UNCHANGED <<forge, octokitThrows, unauthorized, fetching, effectPending, selections,
                 pc, selectedRepos, nodes, links, processedDeps, versionMap,
                 packageMap, index, composerFiles, isPhp, dependencies, latestTag,
                 fileIdx, composerJson, deps, pending, seenVars, callVars>>

NextReset ==
  \/ Next
  \/ ClearGraph
  \/ Reset

SpecReset == Init /\ [][NextReset]_vars

(* ------------------------------------------------------------------ *)
(* The organization and repository slices: the user selects an         *)
(* organization, the effect of OrganizationSelect calls                *)
(* fetchRepositories, and the answers of the forge arrive in any order *)
(* ------------------------------------------------------------------ *)

ErrRepos == "Failed to fetch repositories."

Organizations == {"org", "other", "organic"}

\* what GET /orgs/{org}/repos lists of a repository: its name, archived, and
\* whether pushed_at lies within TWO_WEEKS of now
ForgeRepo(name, archived, recent) ==
  [name |-> name, archived |-> archived, recent |-> recent]

OrgRepos(org) ==
  CASE org = "org"   -> <<ForgeRepo("a", FALSE, TRUE), ForgeRepo("old", TRUE, TRUE),
                          ForgeRepo("b", FALSE, TRUE)>>
    [] org = "other" -> <<ForgeRepo("x", FALSE, TRUE), ForgeRepo("stale", FALSE, FALSE)>>
    [] OTHER         -> <<>>

\* repos.filter(repo => !repo.archived && now - pushedAt <= TWO_WEEKS).map(...)
ActiveRepos(repos) ==
  LET kept == SelectSeq(repos, LAMBDA repo : ~repo.archived /\ repo.recent)
  IN [i \in 1..Len(kept) |->
        [name |-> kept[i].name, archived |-> kept[i].archived, selected |-> TRUE]]

\* cachedData.repositories.map(repo => ({ ...repo, selected: true }))
SelectAll(repos) == [i \in 1..Len(repos) |-> [repos[i] EXCEPT !.selected = TRUE]]

\* the store as the three slices create it
InitRepos ==
  /\ forge = [n \in RepoNames |-> 1]
  /\ octokitThrows = FALSE
  /\ unauthorized = FALSE
  /\ repositories = <<>>
  /\ stateOrganization = Null
  /\ InitStore
  /\ args = <<>>
  /\ result = NoResult

\* setOrganization(org), called by OrganizationSelect with an organization
\* other than the selected one: selectedOrg changes, so its effect is due
SetOrganization(org) ==
  /\ selections < MaxSelections
  /\ org # stateOrganization
  /\ selections' = selections + 1
  /\ stateOrganization' = org
  /\ error' = Null
  /\ effectPending' = TRUE
  /\ UNCHANGED <<forge, octokitThrows, unauthorized, repositories, graphData,
                 isLoading, progress, hasAttemptedFetch, isLoadingRepos, orgCache,
                 fetching, localVars, seenVars, callVars>>

\* the effect calls fetchRepositories(), which runs up to its await: the
\* organization is read from the store once; a cache entry younger than
\* REPO_CACHE_EXPIRY (fresh: the time that has passed is not the program's)
\* is used, else the request is sent
FetchRepositories ==
  /\ effectPending
  /\ effectPending' = FALSE
  /\ error' = Null
  /\ \E fresh \in BOOLEAN :
       IF MapHas(orgCache, stateOrganization) /\ fresh
       THEN /\ repositories' = SelectAll(orgCache[stateOrganization].repositories)
            /\ isLoadingRepos' = FALSE
            /\ UNCHANGED fetching
       ELSE /\ isLoadingRepos' = TRUE
            /\ fetching' = fetching \cup
                 {[organization |-> stateOrganization, now |-> selections]}
            /\ UNCHANGED repositories
  /\ UNCHANGED <<forge, octokitThrows, unauthorized, graphData, isLoading, progress,
                 hasAttemptedFetch, stateOrganization, orgCache, selections,
                 localVars, seenVars, callVars>>

\* await octokit.paginate('GET /orgs/{org}/repos', ...) of a call returns the
\* repositories of the organization the call read, or throws
FetchRepositoriesReturn(call) ==
  /\ call \in fetching
  /\ fetching' = fetching \ {call}
  /\ isLoadingRepos' = FALSE
  /\ \E thrown \in BOOLEAN :
       IF thrown
       THEN /\ error' = ErrRepos
            /\ repositories' = <<>>
            /\ UNCHANGED orgCache
       ELSE /\ repositories' = ActiveRepos(OrgRepos(call.organization))
            /\ orgCache' = MapSet(orgCache, call.organization,
                                  [repositories |-> ActiveRepos(OrgRepos(call.organization)),
                                   timestamp |-> call.now])
            /\ UNCHANGED error
  /\ UNCHANGED <<forge, octokitThrows, unauthorized, graphData, isLoading, progress,
                 hasAttemptedFetch, stateOrganization, effectPending, selections,
                 localVars, seenVars, callVars>>

NextRepos ==
  \/ \E org \in Organizations : SetOrganization(org)
  \/ FetchRepositories
  \/ \E call \in fetching : FetchRepositoriesReturn(call)

SpecRepos == InitRepos /\ [][NextRepos]_vars

(* ------------------------------------------------------------------ *)
(* The pure helpers of dependencyUtils.ts, each called on its own with *)
(* arguments drawn from a bounded set.  The store stays as it was      *)
(* created and no run is in flight.                                    *)
(* ------------------------------------------------------------------ *)

QuietStore ==
  /\ forge = [n \in RepoNames |-> 1]
  /\ octokitThrows = FALSE
  /\ unauthorized = FALSE
  /\ repositories = <<RepositoryRef("a", FALSE), RepositoryRef("b", FALSE)>>
  /\ stateOrganization = organization
  /\ InitStore

quietVars == <<forge, octokitThrows, unauthorized, storeVars, repoVars, localVars, seenVars>>

\* the decimal spelling of a number below 100
Decimal(n) ==
  IF n < 10 THEN <<Digits[n + 1]>>
  ELSE <<Digits[(n \div 10) + 1], Digits[(n % 10) + 1]>>

\* the numbers of a version joined by dots
RECURSIVE Dotted(_)
Dotted(parts) ==
  IF Len(parts) = 1 THEN Decimal(parts[1])
  ELSE Dotted(SubSeq(parts, 1, Len(parts) - 1)) \o <<".">> \o Decimal(parts[Len(parts)])

PartValues == {0, 1, 10}
PartLists  == UNION {[1..k -> PartValues] : k \in 1..MaxParts}
Prefixes   == {<<>>, <<"v">>}
Suffixes   == {<<>>, <<"-", "b">>}

\* an argument of getVersionDifference: its text, and what it was built
\* from (the numbers, whether it has a prerelease suffix)
VersionArg(text, kind, parts, pre) ==
  [text |-> text, kind |-> kind, parts |-> parts, pre |-> pre]

\* the version string [v]X[.Y[.Z...]][-suffix]
VersionOf(prefix, parts, suffix) ==
  VersionArg(prefix \o Dotted(parts) \o suffix, "version", parts, suffix # <<>>)

Versions ==
  {VersionOf(prefix, parts, suffix) :
     prefix \in Prefixes, parts \in PartLists, suffix \in Suffixes}

\* strings without any digit: '', 'v', 'invalid', '-b', 'dev-main'
Garbage ==
  {VersionArg(text, "garbage", <<>>, FALSE) :
     text \in {<<>>, <<"v">>, <<"i", "n", "v", "a", "l", "i", "d">>, <<"-", "b">>,
               <<"d", "e", "v", "-", "m", "a", "i", "n">>}}

\* constraints and other loose forms: '^1.0', '2.1.x', '1.0.0-', '>=1.0.1'
Loose ==
  {VersionArg(text, "loose", <<>>, FALSE) :
     text \in {<<"^", "1", ".", "0">>, <<"2", ".", "1", ".", "x">>,
               <<"1", ".", "0", ".", "0", "-">>, <<">", "=", "1", ".", "0", ".", "1">>}}

VersionArgs == Versions \cup Garbage \cup Loose

InitVersions ==
  /\ QuietStore
  /\ args \in {[current |-> c, latest |-> l] : c \in VersionArgs, l \in VersionArgs}
  /\ result = NoResult

CallGetVersionDifference ==
  /\ ~result.returned
  /\ result' = Returned(getVersionDifference(args.current.text, args.latest.text))
  /\ UNCHANGED <<args, quietVars>>

SpecVersions == InitVersions /\ [][CallGetVersionDifference]_vars

\* the tags a repository may have: v1.0.0, 1.10.0, v1.10, v1.1, 0.0.0,
\* v10.0.0-b, 1.10.0-b, v1.2.0-rc1, and the tag 'latest'
TagArgs ==
  { VersionOf(<<"v">>, <<1, 0, 0>>, <<>>),
    VersionOf(<<>>, <<1, 10, 0>>, <<>>),
    VersionOf(<<"v">>, <<1, 10>>, <<>>),
    VersionOf(<<"v">>, <<1, 1>>, <<>>),
    VersionOf(<<>>, <<0, 0, 0>>, <<>>),
    VersionOf(<<"v">>, <<10, 0, 0>>, <<"-", "b">>),
    VersionOf(<<>>, <<1, 10, 0>>, <<"-", "b">>),
    VersionOf(<<"v">>, <<1, 2, 0>>, <<"-", "r", "c", "1">>),
    VersionArg(<<"l", "a", "t", "e", "s", "t">>, "garbage", <<>>, FALSE) }

TagLists == UNION {[1..k -> TagArgs] : k \in 0..MaxTags}

InitTags ==
  /\ QuietStore
  /\ args \in TagLists
  /\ result = NoResult

\* getLatestTag once all pages of tags are fetched: allTags holds the names
CallSelectLatest ==
  /\ ~result.returned
  /\ result' = Returned(SelectLatest([i \in 1..Len(args) |-> args[i].text]))
  /\ UNCHANGED <<args, quietVars>>

SpecTags == InitTags /\ [][CallSelectLatest]_vars

\* ---------------------------------------------------------------------------
\* findComposerFiles on its own: a repository whose tree is drawn from TreeArgs
\* ---------------------------------------------------------------------------

\* a tree entry, with what its name was written to be: named is TRUE when the
\* path was written to end in composer.json, in any case
TreeArg(type, path, named) == [type |-> type, path |-> path, named |-> named]

PathArgs ==
  { <<<<"c", "o", "m", "p", "o", "s", "e", "r", ".", "j", "s", "o", "n">>, TRUE>>,
    <<<<"s", "r", "c", "/", "M", "o", "d", "u", "l", "e", "/", "c", "o", "m", "p", "o", "s", "e", "r", ".", "j", "s", "o", "n">>, TRUE>>,
    <<<<"t", "e", "s", "t", "s", "/", "C", "o", "m", "p", "o", "s", "e", "r", ".", "J", "S", "O", "N">>, TRUE>>,
    <<<<"o", "t", "h", "e", "r", ".", "j", "s", "o", "n">>, FALSE>>,
    <<<<"c", "o", "m", "p", "o", "s", "e", "r", ".", "j", "s", "o", "n", ".", "b", "a", "k">>, FALSE>>,
    <<<<"c", "o", "m", "p", "o", "s", "e", "r", ".", "l", "o", "c", "k">>, FALSE>> }

TreeArgs == {TreeArg(type, p[1], p[2]) : type \in {"blob", "tree"}, p \in PathArgs}

TreeLists == UNION {[1..k -> TreeArgs] : k \in 0..MaxTree}

InitTree ==
  /\ QuietStore
  /\ args \in [accessible : BOOLEAN, treeOk : BOOLEAN, tree : TreeLists]
  /\ result = NoResult

\* findComposerFiles(octokit, organization, repo)
CallFindComposerFiles ==
  /\ ~result.returned
  /\ result' = Returned(ComposerFilesOf(
                 [accessible |-> args.accessible,
                  treeOk     |-> args.treeOk,
                  tree       |-> [i \in 1..Len(args.tree) |->
                                   [type |-> args.tree[i].type,
                                    path |-> args.tree[i].path]]]))
  /\ UNCHANGED <<args, quietVars>>

SpecTree == InitTree /\ [][CallFindComposerFiles]_vars

\* ---------------------------------------------------------------------------
\* extractDependencies on its own: a manifest whose require and require-dev
\* keys are drawn from KeyArgs
\* ---------------------------------------------------------------------------

\* a key of require / require-dev, with what it was written to be: vendor is
\* the lower-case vendor before the '/' (Null when there is no '/') and repo
\* the lower-case name after it
KeyArg(key, vendor, repo) == [key |-> key, vendor |-> vendor, repo |-> repo]

KeyArgs ==
  { KeyArg("org/a", "org", "a"),
    KeyArg("Org/A", "org", "a"),
    KeyArg("ORG/Lib", "org", "lib"),
    KeyArg("org/b", "org", "b"),
    KeyArg("other/x", "other", "x"),
    KeyArg("organic/x", "organic", "x"),
    KeyArg("php", Null, Null) }

\* the keys of a JSON object are distinct
KeyLists(n) ==
  {ks \in UNION {[1..k -> KeyArgs] : k \in 0..n} :
     \A i, j \in 1..Len(ks) : i # j => ks[i].key # ks[j].key}

OrgArgs == {"org", "ORG"}

UrlArgs == {<<>>, <<"https://github.com/Org/c.git">>, <<"https://example.com/org/c.git">>}

InitDeps ==
  /\ QuietStore
  /\ args \in [org : OrgArgs, require : KeyLists(MaxRequire),
               requireDev : KeyLists(MaxRequireDev), repositories : UrlArgs]
  /\ result = NoResult

\* extractDependencies(composerJson, organization)
CallExtractDependencies ==
  /\ ~result.returned
  /\ result' = Returned(extractDependencies(
                 ComposerJson(Null, Null,
                   [i \in 1..Len(args.require) |-> Req(args.require[i].key, "^1.0")],
                   [i \in 1..Len(args.requireDev) |-> Req(args.requireDev[i].key, "^1.0")],
                   args.repositories),
                 args.org))
  /\ UNCHANGED <<args, quietVars>>

SpecDeps == InitDeps /\ [][CallExtractDependencies]_vars

\* ---------------------------------------------------------------------------
\* getLatestTag page by page: the repository has the tags args.tags, which
\* the forge hands out in pages of args.pageSize tags, at most per_page
\* ---------------------------------------------------------------------------

\* the answer of listTags({per_page, page}): the page-th page
Page(tags, pageSize, page) ==
  SubSeq(tags, (page - 1) * pageSize + 1,
         IF page * pageSize < Len(tags) THEN page * pageSize ELSE Len(tags))

PageTagArgs == {Tag100, TagV120, TagV200}

InitPages ==
  /\ QuietStore
  /\ args \in [tags : UNION {[1..k -> PageTagArgs] : k \in 0..MaxRepoTags},
               pageSize : 1..PerPage]
  /\ result = [returned |-> FALSE, value |-> Null,
               page |-> 1, allTags |-> <<>>, requested |-> <<>>]

\* one turn of while (true): await listTags(...) returns the page; the loop
\* ends on an empty page or on a page shorter than per_page, and then the tag
\* is selected among allTags
ListTagsReturn ==
  /\ ~result.returned
  /\ LET Turn(tags) ==
           IF Len(tags) = 0
           THEN [result EXCEPT !.returned = TRUE,
                               !.value = SelectLatest(result.allTags),
                               !.requested = Append(@, result.page)]
           ELSE IF Len(tags) < PerPage
           THEN [result EXCEPT !.returned = TRUE,
                               !.value = SelectLatest(result.allTags \o tags),
                               !.allTags = @ \o tags,
                               !.requested = Append(@, result.page)]
           ELSE [result EXCEPT !.allTags = @ \o tags,
                               !.requested = Append(@, result.page),
                               !.page = @ + 1]
     IN result' = Turn(Page(args.tags, args.pageSize, result.page))
  /\ UNCHANGED <<args, quietVars>>

SpecPages == InitPages /\ [][ListTagsReturn]_vars

\* ---------------------------------------------------------------------------
\* getComposerLock on its own: a manifest at args.dir \o args.name, a path
\* findComposerFiles returns, and what the forge has at the requested path
\* ---------------------------------------------------------------------------
DirArgs ==
  { <<>>,
    <<"s", "v", "c", "/">>,
    <<"s", "r", "c", "/", "M", "o", "d", "u", "l", "e", "/">>,
    <<"t", "e", "s", "t", "s", "/">>,
    <<"c", "o", "m", "p", "o", "s", "e", "r", ".", "j", "s", "o", "n", ".", "d", "/">> }

NameArgs ==
  { <<"c", "o", "m", "p", "o", "s", "e", "r", ".", "j", "s", "o", "n">>,
    <<"C", "o", "m", "p", "o", "s", "e", "r", ".", "J", "S", "O", "N">>,
    <<"C", "O", "M", "P", "O", "S", "E", "R", ".", "J", "S", "O", "N">>,
    <<"c", "o", "m", "p", "o", "s", "e", "r", ".", "J", "s", "o", "n">>,
    <<"x", "c", "o", "m", "p", "o", "s", "e", "r", ".", "j", "s", "o", "n">> }

LockFileArgs == {Missing, Invalid, Blob(ComposerLock(<<Pkg("org/b", "3.4.1")>>, <<>>))}

InitLock ==
  /\ QuietStore
  /\ args \in {a \in [dir : DirArgs, name : NameArgs, file : LockFileArgs] :
                 ManifestPaths(<<BlobItem(a.dir \o a.name)>>) = <<a.dir \o a.name>>}
  /\ result = NoResult

\* getComposerLock(octokit, owner, repo, path): the path it requests and
\* what it returns
CallGetComposerLock ==
  /\ ~result.returned
  /\ result' = Returned([lockPath |-> ReplaceComposerJson(args.dir \o args.name),
                         lock     |-> LockFrom(args.file)])
  /\ UNCHANGED <<args, quietVars>>

SpecLock == InitLock /\ [][CallGetComposerLock]_vars

(* ------------------------------------------------------------------ *)
(* What the forge holds, read off its contents (not off the run)       *)
(* ------------------------------------------------------------------ *)

PackageNames == {"org/a", "org/b", "org/b2", "org/c"}

Selected(r) == \E i \in 1..Len(repositories) :
                 repositories[i].name = r /\ repositories[i].selected

SelectedNames == {r \in RepoNames : Selected(r)}

\* the manifests of a repository that can be fetched, parse, and have a name
ReadableManifests(r) ==
  {path \in Paths :
     /\ InSeq(path, findComposerFiles(r))
     /\ GetContent(r, path).kind = "json"
     /\ GetContent(r, path).json.name # Null}

ManifestOf(r, path) == GetContent(r, path).json

\* the package names the manifests of a repository declare
DeclaredNames(r) == {ToLower(ManifestOf(r, path).name) : path \in ReadableManifests(r)}

\* the id fetchDependencies gives package P of repository r
PackageIdOf(r, P) == getPackageId(ToLower(organization \o "/" \o r), P)

\* the internal dependencies of a manifest, lowercased
DepsOf(r, path) ==
  LET ds == extractDependencies(ManifestOf(r, path), organization)
  IN {ToLower(ds[i]) : i \in 1..Len(ds)}

\* id is an id a node of package P can have: the bare name, or a package id
IsIdOf(id, P) == id = P \/ \E r \in RepoNames : id = PackageIdOf(r, P)

LinkSet(g) == {g.links[i] : i \in 1..Len(g.links)}

\* a run that got past the construction of the client has finished
RunCompleted == pc = "done" /\ ~octokitThrows

\* ... and every callback it started has finished, too
RunSettled == RunCompleted /\ pending = {}

(* ------------------------------------------------------------------ *)
(* The claims                                                          *)
(* ------------------------------------------------------------------ *)

\* C1: in the graph the store holds after a run, every link's source and
\* every link's target is the id of a node of graphData.nodes.
C1_LinksReferenceNodes ==
  \A i \in 1..Len(graphData.links) :
    /\ graphData.links[i].source \in NodeIds(graphData.nodes)
    /\ graphData.links[i].target \in NodeIds(graphData.nodes)

\* C2: within one run no two links share a (source, target) pair, and a link
\* once created stays where it is with its version: later sightings of the
\* pair neither add a link nor change the kept one.
C2_FirstLinkKept ==
  [][ runs' = runs =>
        /\ Len(links') >= Len(links)
        /\ \A i \in 1..Len(links) : links'[i] = links[i]
        /\ \A i, j \in 1..Len(links') :
             (links'[i].source = links'[j].source /\ links'[i].target = links'[j].target)
               => i = j ]_vars

\* C2 witness: the pair org/a -> org/b was sighted in two manifests whose lock
\* files pin org/b differently; one link exists and it carries the first pin.
C2_Witness ==
  /\ RunSettled
  /\ Len(links) = 1
  /\ links[1].version = "1.0.0"
  /\ MapGet(versionMap, "org/b") = "2.0.0"

\* C3: two selected repositories whose manifests declare the same package
\* name get two distinct package ids and two nodes, each holding only the
\* manifests of its own repository.
C3_SameNameDistinctNodes ==
  RunCompleted =>
    \A r1 \in SelectedNames, r2 \in SelectedNames, P \in PackageNames :
      (r1 # r2 /\ P \in DeclaredNames(r1) /\ P \in DeclaredNames(r2)) =>
        /\ PackageIdOf(r1, P) # PackageIdOf(r2, P)
        /\ HasNode(graphData.nodes, PackageIdOf(r1, P))
        /\ HasNode(graphData.nodes, PackageIdOf(r2, P))
        /\ \A k \in 1..Len(NodeAt(graphData.nodes, PackageIdOf(r1, P)).composerFiles) :
             NodeAt(graphData.nodes, PackageIdOf(r1, P)).composerFiles[k]
               \in ReadableManifests(r1)

\* C3 witness: both repositories were processed and both declare org/a.
C3_Witness ==
  /\ RunCompleted
  /\ SelectedNames = {"a", "b"}
  /\ "org/a" \in DeclaredNames("a") \cap DeclaredNames("b")
  /\ Len(graphData.nodes) >= 2

\* C4: the node of a repository's own manifest is a monorepo service if and
\* only if the repository yields more than one distinct package name.
C4_MonorepoIffSeveralNames ==
  \A r \in SelectedNames, P \in PackageNames :
    (P \in DeclaredNames(r) /\ HasNode(nodes, PackageIdOf(r, P))) =>
      ((NodeAt(nodes, PackageIdOf(r, P)).color = ColorMonorepo)
         <=> (Cardinality(DeclaredNames(r)) > 1))

\* C5: when a selected repository declares two distinct package names, every
\* node of one of its packages, its own or a dependency node another
\* repository sees, is tagged monorepo.
C5_MonorepoPackagesTagged ==
  \A r \in SelectedNames, P \in PackageNames :
    (Cardinality(DeclaredNames(r)) > 1 /\ P \in DeclaredNames(r)) =>
      \A i \in 1..Len(nodes) :
        IsIdOf(nodes[i].id, P) => nodes[i].color = ColorMonorepo

\* the version at which the lock file beside a manifest pins package P
LockPin(r, path, P) ==
  IF getComposerLock(r, path).hasLock
  THEN LockPackage(getComposerLock(r, path).json, P)
  ELSE Null

\* the manifests of repository r that declare package Q and depend on P
Requiring(r, Q, P) ==
  {path \in ReadableManifests(r) :
     ToLower(ManifestOf(r, path).name) = Q /\ P \in DepsOf(r, path)}

\* the versions at which the lock files the run reads for P pin it
PinsOf(P) ==
  UNION {{LockPin(r, path, P) : path \in {q \in ReadableManifests(r) : P \in DepsOf(r, q)}} :
           r \in SelectedNames}
    \ {Null}

\* C6 as stated: A requires B's package and B's lock file pins that package
\* at V; then the edge from A to B exists and carries V.
C6_TargetLockPins ==
  RunSettled =>
    \A rA \in SelectedNames, rB \in SelectedNames,
       Q \in PackageNames, P \in PackageNames, lockOf \in Paths :
      ( /\ rA # rB
        /\ P \in DeclaredNames(rB)
        /\ Requiring(rA, Q, P) # {}
        /\ lockOf \in ReadableManifests(rB)
        /\ LockPin(rB, lockOf, P) # Null ) =>
        /\ \E i \in 1..Len(links) :
             links[i].source = PackageIdOf(rA, Q) /\ IsIdOf(links[i].target, P)
        /\ \A i \in 1..Len(links) :
             (links[i].source = PackageIdOf(rA, Q) /\ IsIdOf(links[i].target, P))
               => links[i].version = LockPin(rB, lockOf, P)

\* C6 amended: when every manifest of A that requires B's package has a lock
\* file that pins it, the edge from A to B carries a version pinned by a lock
\* file read in the run (V, when they all pin V), not A's raw constraint.
C6_OwnLockPins ==
  \A i \in 1..Len(links) :
    \A rA \in SelectedNames, Q \in PackageNames, P \in PackageNames :
      ( /\ links[i].source = PackageIdOf(rA, Q)
        /\ IsIdOf(links[i].target, P)
        /\ \A path \in Requiring(rA, Q, P) : LockPin(rA, path, P) # Null ) =>
        links[i].version \in PinsOf(P)

\* C6 witness: A requires org/b as ^1.0, A's lock file pins it at 3.4.1, B
\* declares org/b, and the edge carries 3.4.1.
C6_Witness ==
  /\ RunSettled
  /\ SelectedNames = {"a", "b"}
  /\ "org/b" \in DeclaredNames("b")
  /\ PinsOf("org/b") = {"3.4.1"}
  /\ \E i \in 1..Len(links) :
       /\ links[i].source = PackageIdOf("a", "org/a")
       /\ IsIdOf(links[i].target, "org/b")
       /\ links[i].version = "3.4.1"

NodeIdSet(g) == {g.nodes[i].id : i \in 1..Len(g.nodes)}

\* C7: a second run over the same selection and the same forge contents
\* leaves the same node ids and the same edges in the store as the first,
\* whatever the order in which the responses arrived (both runs compared
\* once all their callbacks have finished).
C7_RerunSameGraph ==
  (runs >= 2 /\ RunSettled /\ prevSettled) =>
    /\ NodeIdSet(graphData) = NodeIdSet(prevGraph)
    /\ LinkSet(graphData) = LinkSet(prevGraph)

C9_EmptyOutcome ==
  RunCompleted =>
    /\ (Len(nodes) = 0) <=> (error = ErrNoDeps)
    /\ error = ErrNoDeps =>
         (isLoading = FALSE /\ progress = NoProgress /\ graphData = EmptyGraph)
    /\ ErrNoDeps # ErrFetch
    /\ error # ErrFetch

\* C9 witness: a run over a non-empty selection ended without any node.
C9_Witness ==
  RunCompleted /\ Len(selectedRepos) >= 1 /\ Len(nodes) = 0 /\ error = ErrNoDeps

\* C10: a manifest, lock file or tag list that cannot be read does not stop
\* the run: it ends without the top-level error, one snapshot was emitted per
\* selected repository, and every manifest that can be read has its node,
\* with its path, in the graph and, once the callbacks have finished, a node
\* and an edge for each of its dependencies.
C10_FailuresAreLocal ==
  RunCompleted =>
    /\ error # ErrFetch
    /\ Len(progressLog) = Len(selectedRepos)
    /\ \A i \in 1..Len(selectedRepos) :
         /\ progressLog[i].current = i
         /\ progressLog[i].total = Len(selectedRepos)
         /\ progressLog[i].currentRepo = selectedRepos[i].name
    /\ \A r \in SelectedNames, path \in Paths :
         path \in ReadableManifests(r) =>
           LET id == PackageIdOf(r, ToLower(ManifestOf(r, path).name))
           IN /\ HasNode(graphData.nodes, id)
              /\ InSeq(path, NodeAt(graphData.nodes, id).composerFiles)
              /\ pending = {} =>
                   \A P \in DepsOf(r, path) :
                     /\ \E k \in 1..Len(nodes) : IsIdOf(nodes[k].id, P)
                     /\ \E k \in 1..Len(graphData.links) :
                          /\ graphData.links[k].source = id
                          /\ IsIdOf(graphData.links[k].target, P)

\* C10 witness: a listed manifest of a selected repository could not be read,
\* a lock file did not parse and a tag list could not be fetched, and the
\* run over two repositories still ended with an edge.
C10_Witness ==
  /\ RunSettled
  /\ Len(selectedRepos) = 2
  /\ \E r \in SelectedNames :
       /\ \E path \in Paths :
            InSeq(path, findComposerFiles(r)) /\ GetContent(r, path).kind = "missing"
       /\ \E path \in ReadableManifests(r) :
            GetContent(r, ReplaceComposerJson(path)).kind = "invalid"
       /\ ~Forge(r).tagsOk
  /\ Len(graphData.links) >= 1

\* C11: when the client cannot be constructed or the forge rejects the token
\* from the first request on, the run aborts: it ends with the top-level
\* error, no repository was finished, and the graph is the empty one.
C11_AuthFailureAborts ==
  (pc = "done" /\ (octokitThrows \/ unauthorized)) =>
    /\ error = ErrFetch
    /\ progressLog = <<>>
    /\ graphData = EmptyGraph
    /\ isLoading = FALSE

\* C12: within a run every progress snapshot is emitted when all manifests
\* of the repository in turn have been handled, the k-th with current = k,
\* total = n and the name of the k-th selected repository; a run that was
\* not aborted has emitted exactly n of them when it ends, and progress is
\* null again then.
C12_ProgressSnapshots ==
  [][ /\ (runs' = runs /\ progressLog' # progressLog) =>
           LET k == Len(progressLog) + 1
           IN /\ Len(progressLog') = k
              /\ SubSeq(progressLog', 1, k - 1) = progressLog
              /\ k <= Len(selectedRepos)
              /\ progressLog'[k].current = k
              /\ progressLog'[k].total = Len(selectedRepos)
              /\ progressLog'[k].currentRepo = selectedRepos[k].name
              /\ fileIdx = Len(composerFiles)
              /\ pc \in {"latestTag", "getContent", "getLock"}
      /\ (runs' = runs /\ pc # "done" /\ pc' = "done") =>
           /\ Len(progressLog') = Len(selectedRepos)
           /\ progress' = NoProgress ]_vars

\* C12 witness: a run over two repositories has ended; two snapshots were
\* emitted, the second for the second repository, and one lists a dependency.
C12_Witness ==
  /\ RunCompleted
  /\ Len(selectedRepos) = 2
  /\ Len(progressLog) = 2
  /\ progressLog[2].current = 2
  /\ progressLog[2].currentRepo = selectedRepos[2].name
  /\ \E k \in 1..2 : progressLog[k].dependencies # <<>>
  /\ progress = NoProgress

\* what a generated version string says, read off the numbers it was built from
WellFormed(v) == v.kind = "version" /\ Len(v.parts) <= 3
Triple(v)     == [i \in 1..3 |-> IF i <= Len(v.parts) THEN v.parts[i] ELSE 0]

\* t is greater than u, comparing major, then minor, then patch
Exceeds(t, u) ==
  \/ t[1] > u[1]
  \/ t[1] = u[1] /\ t[2] > u[2]
  \/ t[1] = u[1] /\ t[2] = u[2] /\ t[3] > u[3]

\* the most significant component in which two different triples differ
Component(t, u) ==
  IF t[1] # u[1] THEN "major" ELSE IF t[2] # u[2] THEN "minor" ELSE "patch"

\* C13: when latest's (major, minor, patch) exceeds current's,
\* getVersionDifference(current, latest).type names the most significant
\* component in which they differ; and the call with the greater version as
\* current does not return that type.
C13_MostSignificantComponent ==
  (result.returned /\ WellFormed(args.current) /\ WellFormed(args.latest)) =>
    LET a == Triple(args.current)
        b == Triple(args.latest)
    IN /\ Exceeds(b, a) => result.value.type = Component(a, b)
       /\ Exceeds(a, b) => result.value.type # Component(a, b)

C15_UnparseableIsNone ==
  ( /\ result.returned
    /\ (args.current.kind = "garbage" \/ args.latest.kind = "garbage") ) =>
    result.value.type = "none"

\* the name of a version tag without its leading v
NameOf(tag) == Str(IF tag.text[1] = "v" THEN Tail(tag.text) ELSE tag.text)

\* the stable and the prerelease tags of the list; a tag name that is not a
\* version string parses to 0.0.0 without prerelease, so it counts as stable
StableTags     == {i \in 1..Len(args) : ~args[i].pre}
PrereleaseTags == {i \in 1..Len(args) : args[i].pre}

\* tag i is one of the greatest, by (major, minor, patch), of the tags in S
Greatest(i, S) ==
  i \in S /\ \A j \in S : ~Exceeds(Triple(args[j]), Triple(args[i]))

\* C16: with a stable tag among the tags, getLatestTag returns the name,
\* without the leading v, of a stable tag whose (major, minor, patch) no stable
\* tag exceeds, whatever the prerelease tags; without a stable tag it returns
\* a prerelease tag that no prerelease tag exceeds; without tags, null.
C16_StablePreferred ==
  result.returned =>
    /\ StableTags # {} =>
         \E i \in StableTags : Greatest(i, StableTags) /\ result.value = NameOf(args[i])
    /\ (StableTags = {} /\ PrereleaseTags # {}) =>
         \E i \in PrereleaseTags :
           Greatest(i, PrereleaseTags) /\ result.value = NameOf(args[i])
    /\ (\E i \in PrereleaseTags : result.value = NameOf(args[i])) => StableTags = {}
    /\ args = <<>> <=> result.value = Null

\* C16 witness: among v10.0.0-b, v1.0.0 and 1.10.0 the stable 1.10.0 was
\* returned, though the prerelease tag is numerically higher.
C16_Witness ==
  /\ result.returned
  /\ Len(args) = 3
  /\ args[1].text = <<"v", "1", "0", ".", "0", ".", "0", "-", "b">>
  /\ args[2].text = <<"v", "1", ".", "0", ".", "0">>
  /\ args[3].text = <<"1", ".", "1", "0", ".", "0">>
  /\ result.value = "1.10.0"

\* ---------------------------------------------------------------------------
\* C17: findComposerFiles returns exactly the paths of the blob entries of the
\* tree whose path ends, in any case, with composer.json, in tree order; other
\* files and non-blob entries are left out; a repository or a tree that cannot
\* be fetched gives the empty list, and the call returns all the same
\* ---------------------------------------------------------------------------
ExpectedFiles ==
  LET kept == SelectSeq(args.tree, LAMBDA item : item.type = "blob" /\ item.named)
  IN IF args.accessible /\ args.treeOk
     THEN [i \in 1..Len(kept) |-> kept[i].path]
     ELSE <<>>

C17_ExactlyComposerBlobs ==
  result.returned => result.value = ExpectedFiles

C17_Witness ==
  /\ result.returned
  /\ args.accessible /\ args.treeOk
  /\ Len(args.tree) = 3
  /\ Len(result.value) = 2
  /\ result.value[1] # result.value[2]
  /\ \E i \in 1..3 : args.tree[i].type = "tree" /\ args.tree[i].named
  /\ \E i \in 1..2 : result.value[i] # LowerChars(result.value[i])

\* ---------------------------------------------------------------------------
\* C18: extractDependencies returns a set holding one identifier
\* organization/<name in lower case> for every require or require-dev key
\* whose vendor equals the organization whatever the case, duplicates
\* collapsed; no identifier stands for a key of another vendor or of no vendor
\* ---------------------------------------------------------------------------
AllKeys == {args.require[i] : i \in 1..Len(args.require)}
           \cup {args.requireDev[i] : i \in 1..Len(args.requireDev)}

OrgKeys == {k \in AllKeys : k.vendor = "org"}

IdOfKey(k) == args.org \o "/" \o k.repo

C18_OrganizationKeysOnly ==
  result.returned =>
    /\ \A k \in OrgKeys : InSeq(IdOfKey(k), result.value)
    /\ \A i, j \in 1..Len(result.value) :
         i # j => result.value[i] # result.value[j]
    /\ \A k \in AllKeys \ OrgKeys : ~InSeq(k.key, result.value)
    /\ \A i \in 1..Len(result.value) :
         \/ \E k \in OrgKeys : result.value[i] = IdOfKey(k)
         \/ /\ args.repositories # <<>>
            /\ result.value[i] = args.org \o "/c"

C18_Witness ==
  /\ result.returned
  /\ args.repositories = <<>>
  /\ Len(args.require) = 2 /\ Len(args.requireDev) = 1
  /\ \E k \in OrgKeys : k.key # ToLower(k.key)
  /\ \E k \in AllKeys : k.vendor = "organic"
  /\ \E k, l \in OrgKeys : k # l /\ k.repo = l.repo
  /\ Len(result.value) = 1


\* ---------------------------------------------------------------------------
\* C19: the inventory pass finishes for every selected repository before the
\* edge pass starts: while a node or an edge exists, the package names that
\* the manifests of every selected repository declare have all been recorded
\* ---------------------------------------------------------------------------
InventoryRecorded ==
  \A r \in SelectedNames : \A P \in DeclaredNames(r) : MapHas(packageMap, P)

C19_InventoryBeforeEdges ==
  (nodes # <<>> \/ links # <<>>) => InventoryRecorded


\* ---------------------------------------------------------------------------
\* C20: repositories and manifests are processed strictly one after another:
\* when the run moves on to the next manifest or repository, or emits the
\* progress snapshot of a repository, no tag fetch, node insertion or edge
\* insertion that a manifest caused is still outstanding
\* ---------------------------------------------------------------------------
MovesOn ==
  \/ Len(progressLog') > Len(progressLog)
  \/ pc = "getLock" /\ pc' = "getContent"

C20_StrictlySequential ==
  [][MovesOn => pending' = {}]_vars


\* ---------------------------------------------------------------------------
\* C21: nodes are first-write-wins: within a run a node is never deleted and
\* its colour and version never change once it is created; a later encounter
\* of its id may only append a manifest path
\* ---------------------------------------------------------------------------
SameRun == runs' = runs

C21_FirstWriteWins ==
  [][SameRun =>
       \A i \in 1..Len(nodes) :
         /\ HasNode(nodes', nodes[i].id)
         /\ NodeAt(nodes', nodes[i].id).color = nodes[i].color
         /\ NodeAt(nodes', nodes[i].id).version = nodes[i].version]_vars


\* ---------------------------------------------------------------------------
\* C22: the edge from a manifest M to its internal dependency D carries the
\* version M's own lock file records for D when it has one; else the latest
\* tag of D's repository when there is one; else the raw constraint of D in
\* M's require / require-dev; else 'dev-main'
\* ---------------------------------------------------------------------------
PreferredVersion(repo, path, json, dep, normalizedDep) ==
  Or(LockPin(repo, path, normalizedDep),
     Or(getLatestTag(SecondPart(normalizedDep)),
        Or(Lookup(json.require, dep),
           Or(Lookup(json.requireDev, dep), DevMain))))

\* the link was pushed by callback cb, resumed in this step
PushedBy(link, cb) ==
  /\ link.source = cb.packageId
  /\ link.target = cb.depId
  /\ link.version = PreferredVersion(cb.repo, cb.path, cb.json, cb.dep, cb.normalizedDep)

\* the link was pushed while the manifest at hand was processed
PushedAtOnce(link) ==
  /\ pc = "getLock"
  /\ \E i \in 1..Len(deps) :
       /\ link.target \in {ToLower(deps[i]), MapGet(packageMap', ToLower(deps[i]))}
       /\ link.version = PreferredVersion(CurrentRepo.name, CurrentPath, composerJson,
                                          deps[i], ToLower(deps[i]))

C22_VersionPreference ==
  [][\A k \in (Len(links) + 1)..Len(links') :
       \/ \E cb \in pending \ pending' : PushedBy(links'[k], cb)
       \/ PushedAtOnce(links'[k])]_vars


\* ---------------------------------------------------------------------------
\* C23: an edge is added only if the unordered pair of its ends has not been
\* recorded in the run: once an edge joins packages X and Y in either
\* direction, no further edge joins X and Y, the reverse one included
\* ---------------------------------------------------------------------------
Joins(link, X, Y) ==
  \/ IsIdOf(link.source, X) /\ IsIdOf(link.target, Y)
  \/ IsIdOf(link.source, Y) /\ IsIdOf(link.target, X)

C23_UnorderedPairOnce ==
  \A i, j \in 1..Len(links) :
    i # j => ~\E X, Y \in PackageNames : Joins(links[i], X, Y) /\ Joins(links[j], X, Y)


\* ---------------------------------------------------------------------------
\* C24: getLatestTag requests the pages 1, 2, 3, ... in order until a page
\* comes back empty, and returns the tag selected among the tags of all the
\* pages of the repository: a highest tag on a later page is never missed
\* ---------------------------------------------------------------------------
C24_AllPagesFetched ==
  result.returned =>
    /\ result.requested = [k \in 1..Len(result.requested) |-> k]
    /\ Page(args.tags, args.pageSize, Len(result.requested)) = <<>>
    /\ result.value = SelectLatest(args.tags)


\* ---------------------------------------------------------------------------
\* C25: for every manifest path findComposerFiles can return, getComposerLock
\* requests the path that has composer.lock in place of the manifest's file
\* name, in the same directory, and returns null, raising nothing, when that
\* file cannot be fetched
\* ---------------------------------------------------------------------------
C25_LockBesideManifest ==
  result.returned =>
    /\ result.value.lockPath = args.dir \o ComposerLockName
    /\ args.file.kind # "json" => ~result.value.lock.hasLock


\* ---------------------------------------------------------------------------
\* C26: a completed run ends in exactly one of three states: a stored graph
\* that is not empty with no error; an empty graph with the message that no
\* internal dependencies were found; an empty graph with the failure message.
\* So at the end of a run the stored graph is non-empty exactly when error is
\* null
\* ---------------------------------------------------------------------------
SuccessWithGraph == graphData.nodes # <<>> /\ error = Null
SuccessEmpty     == graphData = EmptyGraph /\ error = ErrNoDeps
TopLevelError    == graphData = EmptyGraph /\ error = ErrFetch

C26_ThreeTerminalStates ==
  pc = "done" =>
    /\ SuccessWithGraph \/ SuccessEmpty \/ TopLevelError
    /\ ~(SuccessWithGraph /\ SuccessEmpty)
    /\ ~(SuccessWithGraph /\ TopLevelError)
    /\ ~(SuccessEmpty /\ TopLevelError)
    /\ (graphData # EmptyGraph) <=> (error = Null)
    /\ ~isLoading

C26_Witness ==
  /\ pc = "done"
  /\ runs = 2
  /\ SuccessWithGraph
  /\ prevGraph # EmptyGraph
  /\ graphData.links # <<>>


\* ---------------------------------------------------------------------------
\* C27: provided every forge call eventually returns or fails, every started
\* run eventually reaches a terminal state with isLoading false and progress
\* null; and from the start of the run to its terminal update isLoading stays
\* true
\* ---------------------------------------------------------------------------
RunInFlight == pc \in {"findFiles", "latestTag", "getContent", "getLock"}

DeclaredBySelected(P) == \E B \in SelectedNames : P \in DeclaredNames(B)

C28_OneNodePerPackage ==
  RunSettled =>
    \A P \in PackageNames :
      /\ DeclaredBySelected(P) =>
           /\ P \notin NodeIdSet(graphData)
           /\ \A l \in LinkSet(graphData) : l.target # P
      /\ ~(/\ P \in NodeIdSet(graphData)
           /\ \E r \in RepoNames : PackageIdOf(r, P) \in NodeIdSet(graphData))


\* ---------------------------------------------------------------------------
\* C29: after reset() or clearGraph(), also when called while a run is in
\* flight, graphData stays empty, isLoading false and progress null until
\* fetchDependencies is called again: the run in flight stores neither a
\* progress snapshot nor a graph afterwards.  (hasAttemptedFetch is cleared
\* by both and set again only when fetchDependencies starts a run.)
\* ---------------------------------------------------------------------------
C29_ClearedStaysCleared ==
  ~hasAttemptedFetch =>
    /\ graphData = EmptyGraph
    /\ ~isLoading
    /\ progress = NoProgress


\* ---------------------------------------------------------------------------
\* C30: when the organization is changed while a fetchRepositories call for
\* the organization selected before is pending, then once every pending call
\* has finished the repositories list holds the repositories of the
\* organization selected now (no later call having failed), and every cache
\* entry holds the repositories of the organization it is stored under
\* ---------------------------------------------------------------------------
NothingPending == selections > 0 /\ ~effectPending /\ fetching = {}

C30_RepositoriesOfCurrentOrganization ==
  /\ (NothingPending /\ error = Null) =>
       repositories = ActiveRepos(OrgRepos(stateOrganization))
  /\ \A org \in DOMAIN orgCache :
       orgCache[org].repositories = ActiveRepos(OrgRepos(org))


====
